---------------------------- MODULE Spec2Model ----------------------------
(***************************************************************************)
(* A model of the cobrell bell scheduler: the schedule store and the       *)
(* views that change it (dashboard/views.py), the due-schedule resolver    *)
(* and the scheduler loop (dashboard/scheduler.py), and the audio          *)
(* playback controller (dashboard/scheduler.py).                           *)
(*                                                                         *)
(* Conventions.  A date is a day number whose day 0 is a Monday, so that   *)
(* date.weekday() is the day number modulo 7.  A time of day is a record   *)
(* [hour, minute, second].  A text such as "08:00" is a sequence of        *)
(* one-character strings, so that parsing and formatting are computed.     *)
(* A clip duration (Musik.durasi, a float rounded to 0.1 s) is kept in     *)
(* tenths of a second.  A missing clip reference (NULL) is the pk 0.       *)
(***************************************************************************)
EXTENDS Integers, Sequences, FiniteSets, Bags, TLC

VARIABLES
    \* ---- the persisted store (dashboard/models.py)
    jadwal,          \* set of JadwalBel rows [pk, nama, hari, jam, musik, aktif]
    pengecualian,    \* set of Pengecualian rows [tanggal, jadwal]; in
                     \* ExceptionSpec the bag of them, a row counted as
                     \* often as the table holds it
    musik,           \* set of Musik rows [pk, durasi, file, disk]
    nextPk,          \* the next AUTOINCREMENT pk of JadwalBel
    resp,            \* the last answer of a checked call: [call, errors]
    \* ---- the audio playback globals (dashboard/scheduler.py)
    current_player_lock,      \* the caller that holds the lock, or "none"
    current_playback_thread,  \* a thread id, or 0 for None
    stop_playback,            \* the Event: TRUE when set
    current_playing_name,     \* a playback name, NoName when empty
    threads,         \* the state of each playback thread id
    \* ---- the callers of the playback controller and their locals
    pc,              \* where each caller is
    arg,             \* the clip and name a caller passed to play_audio
    target,          \* the thread a caller is joining
    \* ---- BellScheduler
    running,         \* self._running
    played_this_minute,
    last_minute,     \* the HH:MM text of the previous tick, <<>> at first
    tickNow,         \* the loop's local: now, as [date, time]
    due,             \* the loop's local: what _get_due_schedules returned
    dueIdx,          \* the position of the for loop in due
    lastIter,        \* how the last iteration ended: "none", "ok", "raised"
    \* ---- the wall clock
    clock,           \* an index into ClockPoints
    ticked,          \* the loop has sampled the clock at this point
    \* ---- what an observer of _ring_bell counts
    ringCount        \* per pk and calendar minute: the calls of _ring_bell,
                     \* counted up to 2

storeVars == <<jadwal, pengecualian, musik, nextPk>>

playVars == <<current_player_lock, current_playback_thread, stop_playback,
              current_playing_name, threads>>

callerVars == <<pc, arg, target>>

loopVars == <<running, played_this_minute, last_minute, tickNow, due, dueIdx,
              lastIter>>

clockVars == <<clock, ticked>>

ringVars == <<ringCount>>

\* everything but the store
restVars == <<resp, playVars, callerVars, loopVars, clockVars, ringVars>>

vars == <<jadwal, pengecualian, musik, nextPk, resp,
          current_player_lock, current_playback_thread, stop_playback,
          current_playing_name, threads, pc, arg, target,
          running, played_this_minute, last_minute, tickNow, due, dueIdx,
          lastIter, clock, ticked, ringCount>>

-----------------------------------------------------------------------------
(* Bounds of the model *)

\* the largest JadwalBel pk a run hands out
MaxPk == 3

\* the largest number of Pengecualian rows a run stores
MaxPengecualian == 1

\* the number of playback thread ids
MaxThreads == 2

-----------------------------------------------------------------------------
(* Texts *)

DigitChars == {"0", "1", "2", "3", "4", "5", "6", "7", "8", "9"}

DigitVal(c) ==
    CASE c = "0" -> 0 [] c = "1" -> 1 [] c = "2" -> 2 [] c = "3" -> 3
      [] c = "4" -> 4 [] c = "5" -> 5 [] c = "6" -> 6 [] c = "7" -> 7
      [] c = "8" -> 8 [] c = "9" -> 9

DigitChar(n) ==
    CASE n = 0 -> "0" [] n = 1 -> "1" [] n = 2 -> "2" [] n = 3 -> "3"
      [] n = 4 -> "4" [] n = 5 -> "5" [] n = 6 -> "6" [] n = 7 -> "7"
      [] n = 8 -> "8" [] n = 9 -> "9"

\* the code point order of the characters that occur in the inputs
CharOrd(c) ==
    CASE c \in DigitChars -> 48 + DigitVal(c)
      [] c = ":" -> 58
      [] OTHER -> 104

\* Python's str.__lt__: lexicographic by code point, a proper prefix is smaller
RECURSIVE StrLess(_, _)
StrLess(a, b) ==
    IF b = <<>> THEN FALSE
    ELSE IF a = <<>> THEN TRUE
    ELSE IF CharOrd(Head(a)) # CharOrd(Head(b))
         THEN CharOrd(Head(a)) < CharOrd(Head(b))
    ELSE StrLess(Tail(a), Tail(b))

SeqRange(s) == {s[i] : i \in 1..Len(s)}

\* sorted(set(xs)) on texts
RECURSIVE SortedSet(_)
SortedSet(S) ==
    IF S = {} THEN <<>>
    ELSE LET m == CHOOSE x \in S : \A y \in S \ {x} : StrLess(x, y)
         IN  <<m>> \o SortedSet(S \ {m})

\* list(dict.fromkeys(xs)): the first occurrence of each element, in order
RECURSIVE DedupSeq(_)
DedupSeq(s) ==
    IF s = <<>> THEN <<>>
    ELSE LET init == DedupSeq(SubSeq(s, 1, Len(s) - 1))
             x == s[Len(s)]
         IN  IF x \in SeqRange(init) THEN init ELSE Append(init, x)

RECURSIVE FlatSeq(_)
FlatSeq(ss) ==
    IF ss = <<>> THEN <<>> ELSE Head(ss) \o FlatSeq(Tail(ss))

-----------------------------------------------------------------------------
(* Weekdays *)

HARI_CHOICES == {"senin", "selasa", "rabu", "kamis", "jumat", "sabtu", "minggu"}

WEEKDAY_MAP(n) ==
    CASE n = 0 -> "senin" [] n = 1 -> "selasa" [] n = 2 -> "rabu"
      [] n = 3 -> "kamis" [] n = 4 -> "jumat" [] n = 5 -> "sabtu"
      [] n = 6 -> "minggu"

HARI_ORDER(h) ==
    CASE h = "senin" -> 0 [] h = "selasa" -> 1 [] h = "rabu" -> 2
      [] h = "kamis" -> 3 [] h = "jumat" -> 4 [] h = "sabtu" -> 5
      [] h = "minggu" -> 6 [] OTHER -> 99

-----------------------------------------------------------------------------
(* Interval model *)

Time(h, m, s) == [hour |-> h, minute |-> m, second |-> s]

NoTime == [ok |-> FALSE, time |-> Time(0, 0, 0)]

\* datetime.strptime(text, '%H:%M'): %H is 2[0-3]|[0-1]\d|\d and %M is
\* [0-5]\d|\d, the whole text must match; ok is FALSE where it raises ValueError
strptime_HM(t) ==
    LET colon == {i \in 1..Len(t) : t[i] = ":"}
    IN  IF Cardinality(colon) # 1 THEN NoTime
        ELSE LET c == CHOOSE i \in colon : TRUE
                 hs == SubSeq(t, 1, c - 1)
                 ms == SubSeq(t, c + 1, Len(t))
                 num(ds) == IF Len(ds) = 1 THEN DigitVal(ds[1])
                            ELSE 10 * DigitVal(ds[1]) + DigitVal(ds[2])
             IN  IF /\ Len(hs) \in {1, 2}
                    /\ Len(ms) \in {1, 2}
                    /\ SeqRange(hs) \cup SeqRange(ms) \subseteq DigitChars
                    /\ num(hs) <= 23
                    /\ num(ms) <= 59
                 THEN [ok |-> TRUE, time |-> Time(num(hs), num(ms), 0)]
                 ELSE NoTime

time_to_seconds(t) == t.hour * 3600 + t.minute * 60 + t.second

\* math.ceil of a duration kept in tenths of a second
CeilTenths(d) == (d + 9) \div 10

MusikOf(pk) == CHOOSE m \in musik : m.pk = pk

\* _music_duration_seconds of the clip a row refers to (pk 0: no clip)
music_duration_seconds(mpk) ==
    IF mpk = 0 \/ ~(\E m \in musik : m.pk = mpk) THEN 0
    ELSE IF MusikOf(mpk).durasi = 0 THEN 0
    ELSE CeilTenths(MusikOf(mpk).durasi)

interval_overlaps_strict(start_a, end_a, start_b, end_b) ==
    start_a <= end_b /\ start_b <= end_a

interval_overlaps(start_a, end_a, start_b, end_b) ==
    start_a < end_b /\ start_b < end_a

Fmt2(n) == <<DigitChar((n \div 10) % 10), DigitChar(n % 10)>>

Min(a, b) == IF a <= b THEN a ELSE b

\* a formatting that wraps around midnight
seconds_to_time_str_wraps(total_seconds) ==
    LET t == total_seconds % 86400
    IN  Fmt2(t \div 3600) \o <<":">> \o Fmt2((t % 3600) \div 60)
            \o <<":">> \o Fmt2(t % 60)

\* _seconds_to_time_str: clamp to 86399, then HH:MM:SS
seconds_to_time_str(total_seconds) ==
    LET t == Min(total_seconds, 86399)
    IN  Fmt2(t \div 3600) \o <<":">> \o Fmt2((t % 3600) \div 60)
            \o <<":">> \o Fmt2(t % 60)

\* time.strftime('%H:%M')
strftime_HM(t) == Fmt2(t.hour) \o <<":">> \o Fmt2(t.minute)

-----------------------------------------------------------------------------
(* Conflict validator *)

NoText == <<>>

\* one error message: the values its f-string is built from
Msg(kind, day, jam, nama, jam2, end) ==
    [kind |-> kind, day |-> day, jam |-> jam, nama |-> nama,
     jam2 |-> jam2, end |-> end]

\* the proposed items of one weekday, in jam_list order
ProposedItems(hari, jam_list, new_duration) ==
    [i \in 1..Len(jam_list) |->
        LET start == time_to_seconds(strptime_HM(jam_list[i]).time)
        IN  [hari |-> hari, jam |-> jam_list[i], start |-> start,
             end |-> start + new_duration]]

\* Meta.ordering of JadwalBel within one weekday: by jam (then by pk)
RowBefore(x, y) ==
    \/ time_to_seconds(x.jam) < time_to_seconds(y.jam)
    \/ time_to_seconds(x.jam) = time_to_seconds(y.jam) /\ x.pk < y.pk

RECURSIVE RowsInOrder(_)
RowsInOrder(S) ==
    IF S = {} THEN <<>>
    ELSE LET r == CHOOSE x \in S : \A y \in S \ {x} : RowBefore(x, y)
         IN  <<r>> \o RowsInOrder(S \ {r})

\* JadwalBel.objects.filter(aktif=True).exclude(pk__in=exclude_pks)
ExistingRows(exclude_pks) ==
    {r \in jadwal : r.aktif /\ r.pk \notin exclude_pks}

\* existing_by_day[hari]
ExistingItems(hari, exclude_pks) ==
    LET rows == RowsInOrder({r \in ExistingRows(exclude_pks) : r.hari = hari})
    IN  [i \in 1..Len(rows) |->
            LET start == time_to_seconds(rows[i].jam)
            IN  [nama |-> rows[i].nama, jam |-> strftime_HM(rows[i].jam),
                 start |-> start,
                 end |-> start + music_duration_seconds(rows[i].musik)]]

\* sorted(proposed_items, key=start): stable
RECURSIVE SortByStart(_)
SortByStart(s) ==
    IF s = <<>> THEN <<>>
    ELSE LET rest == SortByStart(SubSeq(s, 1, Len(s) - 1))
             x == s[Len(s)]
             k == Cardinality({i \in 1..Len(rest) : rest[i].start <= x.start})
         IN  SubSeq(rest, 1, k) \o <<x>> \o SubSeq(rest, k + 1, Len(rest))

\* the checks of one proposed item against one existing schedule
ItemVsExistingNoContinue(item, existing) ==
    (IF item.start = existing.start
     THEN <<Msg("same_start_existing", item.hari, item.jam, existing.nama,
                NoText, NoText)>>
     ELSE <<>>)
    \o
    (IF interval_overlaps(item.start, item.end, existing.start, existing.end)
     THEN <<Msg("still_playing_existing", item.hari, item.jam, existing.nama,
                existing.jam, seconds_to_time_str(existing.end))>>
     ELSE <<>>)

ItemVsExisting(item, existing) ==
    IF item.start = existing.start
    THEN <<Msg("same_start_existing", item.hari, item.jam, existing.nama,
               NoText, NoText)>>
    ELSE IF interval_overlaps(item.start, item.end, existing.start, existing.end)
    THEN <<Msg("still_playing_existing", item.hari, item.jam, existing.nama,
               existing.jam, seconds_to_time_str(existing.end))>>
    ELSE <<>>

\* the checks of two items of the batch, left before right in start order
LeftVsRight(left, right) ==
    IF left.start = right.start
    THEN <<Msg("same_start_batch", left.hari, left.jam, "", right.jam, NoText)>>
    ELSE IF interval_overlaps(left.start, left.end, right.start, right.end)
    THEN <<Msg("still_playing_batch", left.hari, left.jam, "", right.jam,
               seconds_to_time_str(left.end))>>
    ELSE <<>>

\* the messages of one weekday, before de-duplication
DayMessages(hari, jam_list, new_duration, exclude_pks) ==
    LET proposed == ProposedItems(hari, jam_list, new_duration)
        existing == ExistingItems(hari, exclude_pks)
        sorted == SortByStart(proposed)
        n == Len(sorted)
    IN  FlatSeq([i \in 1..Len(proposed) |->
            FlatSeq([e \in 1..Len(existing) |->
                ItemVsExisting(proposed[i], existing[e])])])
        \o
        FlatSeq([i \in 1..n |->
            FlatSeq([k \in 1..(n - i) |->
                LeftVsRight(sorted[i], sorted[i + k])])])

\* _validate_schedule_conflicts: the de-duplicated messages, in the order found
validate_schedule_conflicts(hari_list, jam_list, musik_pk, exclude_pks) ==
    LET new_duration == music_duration_seconds(musik_pk)
    IN  DedupSeq(FlatSeq([d \in 1..Len(hari_list) |->
            DayMessages(hari_list[d], jam_list, new_duration, exclude_pks)]))

-----------------------------------------------------------------------------
(* Inputs of the views *)

T0800 == <<"0", "8", ":", "0", "0">>
T800 == <<"8", ":", "0", "0">>
T0801 == <<"0", "8", ":", "0", "1">>
T0802 == <<"0", "8", ":", "0", "2">>
TBad == <<"8", "h">>
TBad2 == <<"9", "h">>

NamaInputs == {"A", "B", ""}

GroupNames == {"A", "B"}

HariInputs == {<<"senin">>, <<"selasa", "senin">>}

JamInputs == {<<T0800>>, <<T0801>>, <<T0800, T800>>, <<T0801, T0800>>}

\* request.POST['musik']: empty, the digits of a pk, or another text
MusikId(kind, v) == [kind |-> kind, v |-> v]

MusikIdInputs == {MusikId("empty", 0), MusikId("int", 1), MusikId("int", 2)}

\* a submitted form: [nama, hari, jam, musik, aktif]
Form(nama, hari_in, jam_in, musik_id, aktif) ==
    [nama |-> nama, hari |-> hari_in, jam |-> jam_in, musik |-> musik_id,
     aktif |-> aktif]

\* the forms whose fields are all well formed
GoodForms ==
    {Form(n, h, j, m, a) : n \in GroupNames, h \in HariInputs, j \in JamInputs,
                           m \in MusikIdInputs, a \in BOOLEAN}

\* forms with a field the views refuse: no name, no or an unknown weekday, no
\* or a malformed time, an unknown clip or a clip field that is no number
BadForms ==
    {Form("", <<"senin">>, <<T0800>>, MusikId("empty", 0), TRUE),
     Form("A", <<>>, <<T0800>>, MusikId("empty", 0), TRUE),
     Form("A", <<"senin", "libur">>, <<T0800>>, MusikId("empty", 0), TRUE),
     Form("A", <<"senin">>, <<>>, MusikId("empty", 0), TRUE),
     Form("A", <<"senin">>, <<TBad, T0800>>, MusikId("empty", 0), TRUE),
     Form("A", <<"libur", "besok">>, <<TBad, TBad2>>, MusikId("empty", 0),
          TRUE),
     Form("A", <<"senin">>, <<T0800>>, MusikId("int", 9), FALSE),
     Form("A", <<"senin">>, <<T0800>>, MusikId("text", 0), FALSE)}

Forms == GoodForms \cup BadForms

\* the dates a request or the clock names: a Monday, the Tuesday after it and
\* the Monday a week later
DateInputs == {0, 1, 7}

\* the clips uploaded before the run: 90.0 s and 59.5 s
InitMusik == {[pk |-> 1, durasi |-> 900, file |-> TRUE, disk |-> TRUE],
              [pk |-> 2, durasi |-> 595, file |-> TRUE, disk |-> TRUE]}

-----------------------------------------------------------------------------
(* The views that change the store *)

\* the alphabetical order of the hari column (order_by('hari', ...))
HariAlpha(h) ==
    CASE h = "jumat" -> 0 [] h = "kamis" -> 1 [] h = "minggu" -> 2
      [] h = "rabu" -> 3 [] h = "sabtu" -> 4 [] h = "selasa" -> 5
      [] h = "senin" -> 6 [] OTHER -> 7

SlotBefore(x, y) ==
    \/ HariAlpha(x.hari) < HariAlpha(y.hari)
    \/ x.hari = y.hari /\ RowBefore(x, y)

RECURSIVE RowsBySlot(_)
RowsBySlot(S) ==
    IF S = {} THEN <<>>
    ELSE LET r == CHOOSE x \in S : \A y \in S \ {x} : SlotBefore(x, y)
         IN  <<r>> \o RowsBySlot(S \ {r})

\* the checks of the form fields that jadwal_create_view and
\* jadwal_group_edit_view share: name, weekdays, times
FieldErrors(nama, hari_list, jam_list) ==
    (IF nama = "" THEN <<Msg("nama_kosong", "", NoText, "", NoText, NoText)>>
     ELSE <<>>)
    \o
    (IF hari_list = <<>>
     THEN <<Msg("hari_kosong", "", NoText, "", NoText, NoText)>>
     ELSE LET bad == {i \in 1..Len(hari_list) : hari_list[i] \notin HARI_CHOICES}
          IN  IF bad = {} THEN <<>>
              ELSE LET i == CHOOSE k \in bad : \A l \in bad : k <= l
                   IN  <<Msg("hari_invalid", hari_list[i], NoText, "", NoText,
                             NoText)>>)
    \o
    (IF jam_list = <<>>
     THEN <<Msg("jam_kosong", "", NoText, "", NoText, NoText)>>
     ELSE LET bad == {i \in 1..Len(jam_list) : ~strptime_HM(jam_list[i]).ok}
          IN  IF bad = {} THEN <<>>
              ELSE LET i == CHOOSE k \in bad : \A l \in bad : k <= l
                   IN  <<Msg("jam_invalid", "", jam_list[i], "", NoText,
                             NoText)>>)

\* JadwalBel.objects.filter(hari__in=hari_list, jam__in=jam_list): the texts
\* of jam_list are converted to times by the query
SameSlotRows(hari_list, jam_list) ==
    {r \in jadwal :
        /\ r.hari \in SeqRange(hari_list)
        /\ \E i \in 1..Len(jam_list) : strptime_HM(jam_list[i]).time = r.jam}

SameSlotErrors(hari_list, jam_list, withName) ==
    LET rows == RowsBySlot(SameSlotRows(hari_list, jam_list))
    IN  [i \in 1..Len(rows) |->
            Msg("slot_taken", rows[i].hari, strftime_HM(rows[i].jam),
                IF withName THEN rows[i].nama ELSE "", NoText, NoText)]

\* Musik.objects.get(pk=int(musik_id)): 0 when the field is empty
MusikFound(musik_id) ==
    musik_id.kind = "int" /\ \E m \in musik : m.pk = musik_id.v

MusikErrors(musik_id) ==
    IF musik_id.kind = "empty" \/ MusikFound(musik_id) THEN <<>>
    ELSE <<Msg("musik_not_found", "", NoText, "", NoText, NoText)>>

MusikPk(musik_id) == IF MusikFound(musik_id) THEN musik_id.v ELSE 0

\* the rows JadwalBel.objects.create makes, one per weekday and time, the
\* weekdays outermost, with consecutive pks from first_pk
NewRows(nama, hari_list, jam_list, musik_pk, aktif, first_pk) ==
    {[pk |-> first_pk + (h - 1) * Len(jam_list) + (j - 1),
      nama |-> nama,
      hari |-> hari_list[h],
      jam |-> strptime_HM(jam_list[j]).time,
      musik |-> musik_pk,
      aktif |-> aktif] : h \in 1..Len(hari_list), j \in 1..Len(jam_list)}

\* a create view that tests "if errors" before the conflict validator has
\* been asked
jadwal_create_view_early_test(nama, hari_in, jam_in, musik_id, aktif) ==
    LET hari_list == DedupSeq(hari_in)
        jam_list == SortedSet(SeqRange(jam_in))
        e1 == FieldErrors(nama, hari_list, jam_list)
        e2 == IF e1 = <<>> THEN SameSlotErrors(hari_list, jam_list, FALSE)
              ELSE <<>>
        errors == e1 \o e2 \o MusikErrors(musik_id)
        created == Len(hari_list) * Len(jam_list)
    IN  IF errors # <<>>
        THEN UNCHANGED <<jadwal, pengecualian, musik, nextPk>>
        ELSE /\ nextPk + created - 1 <= MaxPk
             /\ jadwal' = jadwal \cup NewRows(nama, hari_list, jam_list,
                                              MusikPk(musik_id), aktif, nextPk)
             /\ nextPk' = nextPk + created
             /\ UNCHANGED <<pengecualian, musik>>

\* the errors jadwal_create_view collects
CreateErrors(nama, hari_list, jam_list, musik_id, aktif) ==
    LET e1 == FieldErrors(nama, hari_list, jam_list)
        e2 == IF e1 = <<>> THEN SameSlotErrors(hari_list, jam_list, FALSE)
              ELSE <<>>
        e3 == MusikErrors(musik_id)
        e123 == e1 \o e2 \o e3
    IN  e123 \o (IF e123 = <<>> /\ aktif
                 THEN validate_schedule_conflicts(hari_list, jam_list,
                                                  MusikPk(musik_id), {})
                 ELSE <<>>)

jadwal_create_view(nama, hari_in, jam_in, musik_id, aktif) ==
    LET hari_list == DedupSeq(hari_in)
        jam_list == SortedSet(SeqRange(jam_in))
        errors == CreateErrors(nama, hari_list, jam_list, musik_id, aktif)
        created == Len(hari_list) * Len(jam_list)
    IN  IF errors # <<>>
        THEN UNCHANGED <<jadwal, pengecualian, musik, nextPk>>
        ELSE /\ nextPk + created - 1 <= MaxPk
             /\ jadwal' = jadwal \cup NewRows(nama, hari_list, jam_list,
                                              MusikPk(musik_id), aktif, nextPk)
             /\ nextPk' = nextPk + created
             /\ UNCHANGED <<pengecualian, musik>>

GroupRows(nama) == {r \in jadwal : r.nama = nama}

Pks(rows) == {r.pk : r \in rows}

\* the errors jadwal_group_edit_view collects, without repetitions
GroupEditErrors(nama, new_nama, hari_list, jam_list, musik_id, aktif) ==
    LET e1 == FieldErrors(new_nama, hari_list, jam_list)
        e2 == IF e1 = <<>> THEN SameSlotErrors(hari_list, jam_list, TRUE)
              ELSE <<>>
        e3 == MusikErrors(musik_id)
        e123 == e1 \o e2 \o e3
    IN  DedupSeq(e123 \o
            (IF e123 = <<>> /\ aktif
             THEN validate_schedule_conflicts(hari_list, jam_list,
                      MusikPk(musik_id), Pks(GroupRows(nama)))
             ELSE <<>>))

jadwal_group_edit_view(nama, new_nama, hari_in, jam_in, musik_id, aktif) ==
    LET hari_list == DedupSeq(hari_in)
        jam_list == SortedSet(SeqRange(jam_in))
        errors == GroupEditErrors(nama, new_nama, hari_list, jam_list,
                                  musik_id, aktif)
        created == Len(hari_list) * Len(jam_list)
    IN  /\ GroupRows(nama) # {}
        /\ IF errors # <<>>
           THEN UNCHANGED <<jadwal, pengecualian, musik, nextPk>>
           ELSE /\ nextPk + created - 1 <= MaxPk
                /\ jadwal' = (jadwal \ GroupRows(nama))
                        \cup NewRows(new_nama, hari_list, jam_list,
                                     MusikPk(musik_id), aktif, nextPk)
                /\ pengecualian' =
                        {p \in pengecualian : p.jadwal \notin Pks(GroupRows(nama))}
                /\ nextPk' = nextPk + created
                /\ UNCHANGED musik

\* a delete that leaves the exceptions of the row behind
jadwal_delete_view_keeps_exceptions(pk) ==
    /\ \E r \in jadwal : r.pk = pk
    /\ jadwal' = {r \in jadwal : r.pk # pk}
    /\ UNCHANGED <<pengecualian, musik, nextPk>>

jadwal_delete_view(pk) ==
    /\ \E r \in jadwal : r.pk = pk
    /\ jadwal' = {r \in jadwal : r.pk # pk}
    /\ pengecualian' = {p \in pengecualian : p.jadwal # pk}
    /\ UNCHANGED <<musik, nextPk>>

jadwal_group_delete_view(nama) ==
    /\ GroupRows(nama) # {}
    /\ jadwal' = jadwal \ GroupRows(nama)
    /\ pengecualian' = {p \in pengecualian : p.jadwal \notin Pks(GroupRows(nama))}
    /\ UNCHANGED <<musik, nextPk>>

jadwal_toggle_view(pk) ==
    /\ \E r \in jadwal : r.pk = pk
    /\ jadwal' = {IF r.pk = pk THEN [r EXCEPT !.aktif = ~r.aktif] ELSE r :
                    r \in jadwal}
    /\ UNCHANGED <<pengecualian, musik, nextPk>>

jadwal_group_toggle_view(nama) ==
    LET any_active == \E r \in GroupRows(nama) : r.aktif
        new_status == ~any_active
    IN  /\ GroupRows(nama) # {}
        /\ jadwal' = {IF r.nama = nama THEN [r EXCEPT !.aktif = new_status]
                      ELSE r : r \in jadwal}
        /\ UNCHANGED <<pengecualian, musik, nextPk>>

\* a clip delete that takes the schedules of the clip with it
musik_delete_view_cascade(pk) ==
    /\ \E m \in musik : m.pk = pk
    /\ musik' = {m \in musik : m.pk # pk}
    /\ jadwal' = {r \in jadwal : r.musik # pk}
    /\ UNCHANGED <<pengecualian, nextPk>>

\* Musik.delete(): on_delete=SET_NULL on JadwalBel.musik
musik_delete_view(pk) ==
    /\ \E m \in musik : m.pk = pk
    /\ musik' = {m \in musik : m.pk # pk}
    /\ jadwal' = {IF r.musik = pk THEN [r EXCEPT !.musik = 0] ELSE r :
                    r \in jadwal}
    /\ UNCHANGED <<pengecualian, nextPk>>

\* date.weekday() of a day number whose day 0 is a Monday
Weekday(date) == date % 7

\* a choice of rows that does not look at the weekday
ExceptionTargets_any_weekday(tanggal, jadwal_ids) ==
    {r \in jadwal : r.pk \in jadwal_ids /\ r.aktif}

\* the rows pengecualian_create_view accepts among the submitted ids
ExceptionTargets(tanggal, jadwal_ids) ==
    {r \in jadwal : /\ r.pk \in jadwal_ids
                    /\ r.aktif
                    /\ r.hari = WEEKDAY_MAP(Weekday(tanggal))}

pengecualian_create_view(tanggal, jadwal_ids) ==
    LET new == {[tanggal |-> tanggal, jadwal |-> r.pk] :
                    r \in ExceptionTargets(tanggal, jadwal_ids)}
    IN  /\ jadwal_ids # {}
        /\ Cardinality(pengecualian \cup new) <= MaxPengecualian
        /\ pengecualian' = pengecualian \cup new
        /\ UNCHANGED <<jadwal, musik, nextPk>>

pengecualian_delete_view(p) ==
    /\ p \in pengecualian
    /\ pengecualian' = pengecualian \ {p}
    /\ UNCHANGED <<jadwal, musik, nextPk>>

-----------------------------------------------------------------------------
(* Playback controller: the threads started by play_audio *)

\* a playback name: the schedule's name and the clip's (the clip's alone for a
\* test play); the empty name is NoName
Name(nama, clip) == [jadwal |-> nama, musik |-> clip]

NoName == Name("", 0)

Tids == 1..MaxThreads

\* the callers of play_audio and stop_audio: the scheduler's thread and the
\* request threads of the web server
Callers == {"loop", "w1", "w2", "w3"}

WebCallers == {"w1", "w2", "w3"}

\* threading.Thread.is_alive(): started and its target has not returned
is_alive(t) ==
    threads[t] \in {"start", "fallback", "poll", "ending", "exiting"}

\* is_playing()
is_playing ==
    current_playback_thread # 0 /\ is_alive(current_playback_thread)

\* get_playback_status()
get_playback_status ==
    [is_playing |-> is_playing,
     current_name |-> IF is_playing THEN current_playing_name ELSE NoName]

\* a thread object nobody refers to any more gives its id back
Referenced(t, cur, tg) == cur = t \/ \E c \in Callers : tg[c] = t

Reap(th, cur, tg) ==
    [t \in Tids |-> IF th[t] = "dead" /\ ~Referenced(t, cur, tg) THEN "free"
                    ELSE th[t]]

\* what a step of a playback thread leaves alone
threadFrame == <<storeVars, resp, callerVars, loopVars, clockVars, ringVars>>

\* _play: pygame gets as far as its polling loop (pygame.mixer.music.play
\* succeeded)
ThreadLoad(t) ==
    /\ threads[t] = "start"
    /\ threads' = [threads EXCEPT ![t] = "poll"]
    /\ UNCHANGED <<current_player_lock, current_playback_thread, stop_playback,
                   current_playing_name>>
    /\ UNCHANGED threadFrame

\* _play, lines 123-127: _play_with_pygame raised (no pygame, no mixer, a
\* file it cannot load); the subprocess fallback is next
ThreadPygameFails(t) ==
    /\ threads[t] = "start"
    /\ threads' = [threads EXCEPT ![t] = "fallback"]
    /\ UNCHANGED <<current_player_lock, current_playback_thread, stop_playback,
                   current_playing_name>>
    /\ UNCHANGED threadFrame

\* _play_with_subprocess gets as far as its polling loop (Popen succeeded)
ThreadFallbackLoad(t) ==
    /\ threads[t] = "fallback"
    /\ threads' = [threads EXCEPT ![t] = "poll"]
    /\ UNCHANGED <<current_player_lock, current_playback_thread, stop_playback,
                   current_playing_name>>
    /\ UNCHANGED threadFrame

\* _play, lines 128-130: the subprocess fallback raised too (no player on the
\* system); logged
ThreadBackendsFail(t) ==
    /\ threads[t] = "fallback"
    /\ threads' = [threads EXCEPT ![t] = "ending"]
    /\ UNCHANGED <<current_player_lock, current_playback_thread, stop_playback,
                   current_playing_name>>
    /\ UNCHANGED threadFrame

\* a polling loop that does not look at _stop_playback
ThreadIgnoresStop(t) ==
    /\ threads[t] = "poll"
    /\ stop_playback
    /\ UNCHANGED vars

\* the polling loop of a backend sees _stop_playback set and stops the audio
ThreadSeesStop(t) ==
    /\ threads[t] = "poll"
    /\ stop_playback
    /\ threads' = [threads EXCEPT ![t] = "ending"]
    /\ UNCHANGED <<current_player_lock, current_playback_thread, stop_playback,
                   current_playing_name>>
    /\ UNCHANGED threadFrame

\* the clip ends: get_busy() is false, or the player process has exited
ThreadClipEnds(t) ==
    /\ threads[t] = "poll"
    /\ threads' = [threads EXCEPT ![t] = "ending"]
    /\ UNCHANGED <<current_player_lock, current_playback_thread, stop_playback,
                   current_playing_name>>
    /\ UNCHANGED threadFrame

\* _play, after the backends: _current_playing_name = ''
ThreadClearsName(t) ==
    /\ threads[t] = "ending"
    /\ current_playing_name' = NoName
    /\ threads' = [threads EXCEPT ![t] = "exiting"]
    /\ UNCHANGED <<current_player_lock, current_playback_thread, stop_playback>>
    /\ UNCHANGED threadFrame

\* _play returns: the thread is no longer alive
ThreadReturns(t) ==
    /\ threads[t] = "exiting"
    /\ threads' = Reap([threads EXCEPT ![t] = "dead"],
                       current_playback_thread, target)
    /\ UNCHANGED <<current_player_lock, current_playback_thread, stop_playback,
                   current_playing_name>>
    /\ UNCHANGED threadFrame

ThreadStep ==
    \E t \in Tids :
        \/ ThreadLoad(t)
        \/ ThreadPygameFails(t)
        \/ ThreadFallbackLoad(t)
        \/ ThreadBackendsFail(t)
        \/ ThreadSeesStop(t)
        \/ ThreadClipEnds(t)
        \/ ThreadClearsName(t)
        \/ ThreadReturns(t)

-----------------------------------------------------------------------------
(* Playback controller: play_audio and stop_audio, statement by statement *)

NoArg == [clip |-> 0, name |-> NoName]

\* what a statement of play_audio or stop_audio leaves alone
callFrame == <<storeVars, resp, loopVars, clockVars, ringVars>>

\* where a caller goes on when play_audio or stop_audio returns
AfterPlay(c) == IF c = "loop" THEN "ring" ELSE "idle"

AfterStop(c) == IF c = "loop" THEN "stopped" ELSE "idle"

\* os.path.isfile(file_path)
FileOnDisk(clip) == \E m \in musik : m.pk = clip /\ m.disk

FreeTid == CHOOSE t \in Tids : threads[t] = "free" /\ \A u \in Tids : threads[u] = "free" => t <= u

\* a join without a timeout: it does not return while the thread is alive
JoinNeverExpires(t) == FALSE

\* join(timeout=10) can expire only on a thread that is not about to leave: one
\* that has not reached its polling loop, or one that polls (every 0.1 s) and
\* finds the stop flag clear
JoinCanExpire(t) ==
    \/ threads[t] \in {"start", "fallback"}
    \/ threads[t] = "poll" /\ ~stop_playback

\* lines 114-118: the stop flag is cleared before the lock is taken
play_audio_clear(c) ==
    /\ pc[c] = "pa_clear"
    /\ stop_playback' = FALSE
    /\ pc' = [pc EXCEPT ![c] = IF FileOnDisk(arg[c].clip) THEN "pa_enter"
                                ELSE AfterPlay(c)]
    /\ arg' = IF FileOnDisk(arg[c].clip) THEN arg ELSE [arg EXCEPT ![c] = NoArg]
    /\ UNCHANGED <<current_player_lock, current_playback_thread,
                   current_playing_name, threads, target>>

\* lines 140-142, after the join: clear the flag and set the name, the lock
\* still held
play_audio_install(c) ==
    /\ stop_playback' = FALSE
    /\ current_playing_name' = arg[c].name
    /\ target' = [target EXCEPT ![c] = 0]
    /\ threads' = Reap(threads, current_playback_thread, target')
    /\ pc' = [pc EXCEPT ![c] = "pa_start"]
    /\ UNCHANGED <<current_player_lock, current_playback_thread, arg>>

\* lines 134-139: take the lock; with a live current thread set the stop flag
\* and start to join it, else set the name (line 142; the flag is left as it
\* is)
play_audio_enter(c) ==
    /\ pc[c] = "pa_enter"
    /\ current_player_lock = "none"
    /\ current_player_lock' = c
    /\ IF is_playing
       THEN /\ stop_playback' = TRUE
            /\ target' = [target EXCEPT ![c] = current_playback_thread]
            /\ pc' = [pc EXCEPT ![c] = "pa_join"]
            /\ UNCHANGED current_playing_name
       ELSE /\ current_playing_name' = arg[c].name
            /\ pc' = [pc EXCEPT ![c] = "pa_start"]
            /\ UNCHANGED <<stop_playback, target>>
    /\ UNCHANGED <<current_playback_thread, threads, arg>>

\* lines 143-145 and the release of the lock: start the new thread and make
\* it the current one
play_audio_start(c) ==
    /\ pc[c] = "pa_start"
    /\ \E t \in Tids : threads[t] = "free"
    /\ current_playback_thread' = FreeTid
    /\ threads' = Reap([threads EXCEPT ![FreeTid] = "start"], FreeTid, target)
    /\ current_player_lock' = "none"
    /\ pc' = [pc EXCEPT ![c] = AfterPlay(c)]
    /\ arg' = [arg EXCEPT ![c] = NoArg]
    /\ UNCHANGED <<stop_playback, current_playing_name, target>>

\* line 139 returns because the old thread has ended
play_audio_joined(c) ==
    /\ pc[c] = "pa_join"
    /\ ~is_alive(target[c])
    /\ play_audio_install(c)

\* line 139 returns because the 10 s have passed
play_audio_join_expired(c) ==
    /\ pc[c] = "pa_join"
    /\ is_alive(target[c])
    /\ JoinCanExpire(target[c])
    /\ play_audio_install(c)

\* lines 151-154: take the lock; with a live current thread set the stop flag
\* and start to join it, else release the lock and return
stop_audio_enter(c) ==
    /\ pc[c] = "sa_enter"
    /\ current_player_lock = "none"
    /\ IF is_playing
       THEN /\ current_player_lock' = c
            /\ stop_playback' = TRUE
            /\ target' = [target EXCEPT ![c] = current_playback_thread]
            /\ pc' = [pc EXCEPT ![c] = "sa_join"]
       ELSE /\ pc' = [pc EXCEPT ![c] = AfterStop(c)]
            /\ UNCHANGED <<current_player_lock, stop_playback, target>>
    /\ UNCHANGED <<current_playback_thread, current_playing_name, threads, arg>>

\* stop_audio that forgets its thread's reference: line 156 left out
stop_audio_finish_keeps_thread(c) ==
    /\ current_playing_name' = NoName
    /\ target' = [target EXCEPT ![c] = 0]
    /\ threads' = Reap(threads, current_playback_thread, target')
    /\ current_player_lock' = "none"
    /\ pc' = [pc EXCEPT ![c] = AfterStop(c)]
    /\ UNCHANGED <<current_playback_thread, stop_playback, arg>>

\* lines 155-157 and the release of the lock
stop_audio_finish(c) ==
    /\ current_playback_thread' = 0
    /\ current_playing_name' = NoName
    /\ target' = [target EXCEPT ![c] = 0]
    /\ threads' = Reap(threads, 0, target')
    /\ current_player_lock' = "none"
    /\ pc' = [pc EXCEPT ![c] = AfterStop(c)]
    /\ UNCHANGED <<stop_playback, arg>>

stop_audio_joined(c) ==
    /\ pc[c] = "sa_join"
    /\ ~is_alive(target[c])
    /\ stop_audio_finish(c)

stop_audio_join_expired(c) ==
    /\ pc[c] = "sa_join"
    /\ is_alive(target[c])
    /\ JoinCanExpire(target[c])
    /\ stop_audio_finish(c)

\* the statements of play_audio and stop_audio, by any caller
PlaybackCall ==
    \E c \in Callers :
        \/ play_audio_clear(c) /\ UNCHANGED callFrame
        \/ play_audio_enter(c) /\ UNCHANGED callFrame
        \/ play_audio_joined(c) /\ UNCHANGED callFrame
        \/ play_audio_join_expired(c) /\ UNCHANGED callFrame
        \/ play_audio_start(c) /\ UNCHANGED callFrame
        \/ stop_audio_enter(c) /\ UNCHANGED callFrame
        \/ stop_audio_joined(c) /\ UNCHANGED callFrame
        \/ stop_audio_join_expired(c) /\ UNCHANGED callFrame

\* musik_test_play_view: refuse while something plays, else play_audio
musik_test_play_view(c, clip) ==
    /\ pc[c] = "idle"
    /\ \E m \in musik : m.pk = clip /\ m.file
    /\ ~is_playing
    /\ pc' = [pc EXCEPT ![c] = "pa_clear"]
    /\ arg' = [arg EXCEPT ![c] = [clip |-> clip, name |-> Name("", clip)]]
    /\ UNCHANGED target

\* musik_stop_play_view: stop_audio
musik_stop_play_view(c) ==
    /\ pc[c] = "idle"
    /\ pc' = [pc EXCEPT ![c] = "sa_enter"]
    /\ UNCHANGED <<arg, target>>

TestPlayRequest ==
    /\ \E c \in WebCallers, m \in musik : musik_test_play_view(c, m.pk)
    /\ UNCHANGED <<storeVars, resp, playVars, loopVars, clockVars, ringVars>>

StopPlayRequest ==
    /\ \E c \in WebCallers : musik_stop_play_view(c)
    /\ UNCHANGED <<storeVars, resp, playVars, loopVars, clockVars, ringVars>>

PlaybackInit ==
    /\ current_player_lock = "none"
    /\ current_playback_thread = 0
    /\ stop_playback = FALSE
    /\ current_playing_name = NoName
    /\ threads = [t \in Tids |-> "free"]
    /\ arg = [c \in Callers |-> NoArg]
    /\ target = [c \in Callers |-> 0]

-----------------------------------------------------------------------------
(* The wall clock *)

\* the instants at which the clock is read: two Mondays a week apart, on both
\* sides of a minute boundary
ClockDates == <<0, 7>>

ClockTimes == <<Time(8, 0, 0), Time(8, 0, 30), Time(8, 1, 0)>>

ClockPoints ==
    [i \in 1..(Len(ClockDates) * Len(ClockTimes)) |->
        [date |-> ClockDates[((i - 1) \div Len(ClockTimes)) + 1],
         time |-> ClockTimes[((i - 1) % Len(ClockTimes)) + 1]]]

\* the calendar minute of an instant
CalMinute(now) == <<now.date, now.time.hour, now.time.minute>>

CalMinutes == {CalMinute(ClockPoints[i]) : i \in DOMAIN ClockPoints}

-----------------------------------------------------------------------------
(* Due-schedule resolver *)

\* a JadwalBel object as the query returns it, with its clip joined
\* (select_related): file is jadwal.musik and jadwal.musik.file
Joined(r) ==
    [pk |-> r.pk, nama |-> r.nama, hari |-> r.hari, jam |-> r.jam,
     musik |-> r.musik,
     file |-> IF r.musik \in {m.pk : m \in musik}
              THEN MusikOf(r.musik).file ELSE FALSE]

\* the resolver without its exception filter
get_due_schedules_unfiltered(now_local) ==
    LET today_key == WEEKDAY_MAP(Weekday(now_local.date))
        matched == {r \in jadwal : /\ r.aktif
                                   /\ r.hari = today_key
                                   /\ r.jam.hour = now_local.time.hour
                                   /\ r.jam.minute = now_local.time.minute}
        schedules == RowsBySlot(matched)
    IN  [i \in 1..Len(schedules) |-> Joined(schedules[i])]

\* the resolver with an exception filter that forgets the date
get_due_schedules_any_date(now_local) ==
    LET today_key == WEEKDAY_MAP(Weekday(now_local.date))
        matched == {r \in jadwal : /\ r.aktif
                                   /\ r.hari = today_key
                                   /\ r.jam.hour = now_local.time.hour
                                   /\ r.jam.minute = now_local.time.minute}
        schedules == RowsBySlot(matched)
        exception_jadwal_ids ==
            {p.jadwal : p \in {q \in pengecualian : q.jadwal \in Pks(matched)}}
        kept == SelectSeq(schedules, LAMBDA s : s.pk \notin exception_jadwal_ids)
    IN  [i \in 1..Len(kept) |-> Joined(kept[i])]

\* _get_due_schedules(now_local)
get_due_schedules(now_local) ==
    LET today_key == WEEKDAY_MAP(Weekday(now_local.date))
        matched == {r \in jadwal : /\ r.aktif
                                   /\ r.hari = today_key
                                   /\ r.jam.hour = now_local.time.hour
                                   /\ r.jam.minute = now_local.time.minute}
        schedules == RowsBySlot(matched)
        today == now_local.date
        exception_jadwal_ids ==
            {p.jadwal : p \in {q \in pengecualian :
                                  /\ q.tanggal = today
                                  /\ q.jadwal \in Pks(matched)}}
        kept == SelectSeq(schedules, LAMBDA s : s.pk \notin exception_jadwal_ids)
    IN  IF schedules = <<>> THEN <<>>
        ELSE [i \in 1..Len(kept) |-> Joined(kept[i])]

-----------------------------------------------------------------------------
(* The next bell shown on the dashboard *)

SecondsOfDay(t) == t.hour * 3600 + t.minute * 60 + t.second

\* what _get_next_bell returns: a JadwalBel or None
NoBell ==
    [found |-> FALSE,
     row |-> [pk |-> 0, nama |-> "", hari |-> "", jam |-> Time(0, 0, 0),
              musik |-> 0, aktif |-> FALSE]]

Bell(r) == [found |-> TRUE, row |-> r]

\* a first() that passes over the schedules with a stored exception
first_by_jam_without_excepted(rows) ==
    LET kept == {r \in rows : ~\E p \in pengecualian : p.jadwal = r.pk}
    IN  IF kept = {} THEN {NoBell}
        ELSE {Bell(r) : r \in {x \in kept : \A y \in kept :
                                  SecondsOfDay(x.jam) <= SecondsOfDay(y.jam)}}

\* queryset.order_by('jam').first(): None, or a row of the smallest jam; rows
\* of one jam come in the order the database chooses
first_by_jam(rows) ==
    IF rows = {} THEN {NoBell}
    ELSE {Bell(r) : r \in {x \in rows : \A y \in rows :
                              SecondsOfDay(x.jam) <= SecondsOfDay(y.jam)}}

RECURSIVE next_bell_from_six(_, _)
RECURSIVE next_bell_from(_, _)

\* a search of the following days that ends one day early
next_bell_from_six(now, offset) ==
    IF offset > 6 THEN {NoBell}
    ELSE LET day_key == WEEKDAY_MAP(Weekday(now.date + offset))
             rows == {r \in jadwal : r.aktif /\ r.hari = day_key}
         IN  IF rows # {} THEN first_by_jam(rows)
             ELSE next_bell_from_six(now, offset + 1)

\* the loop "for offset in range(1, 8)" from the given offset on
next_bell_from(now, offset) ==
    IF offset > 7 THEN {NoBell}
    ELSE LET day_key == WEEKDAY_MAP(Weekday(now.date + offset))
             rows == {r \in jadwal : r.aktif /\ r.hari = day_key}
         IN  IF rows # {} THEN first_by_jam(rows)
             ELSE next_bell_from(now, offset + 1)

\* a search of today that takes a bell at the current time for the next one
get_next_bell_gte(now) ==
    LET today_key == WEEKDAY_MAP(Weekday(now.date))
        next_today == {r \in jadwal :
                          /\ r.aktif
                          /\ r.hari = today_key
                          /\ SecondsOfDay(r.jam) >= SecondsOfDay(now.time)}
    IN  IF next_today # {} THEN first_by_jam(next_today)
        ELSE next_bell_from(now, 1)

\* _get_next_bell(now_local): the values it may return
get_next_bell(now) ==
    LET today_key == WEEKDAY_MAP(Weekday(now.date))
        next_today == {r \in jadwal :
                          /\ r.aktif
                          /\ r.hari = today_key
                          /\ SecondsOfDay(r.jam) > SecondsOfDay(now.time)}
    IN  IF next_today # {} THEN first_by_jam(next_today)
        ELSE next_bell_from(now, 1)

-----------------------------------------------------------------------------
(* BellScheduler *)

\* the positions of the scheduler's thread at which _loop is running
RunningPcs == {"top", "ring", "pa_clear", "pa_enter", "pa_join", "pa_start"}

\* the schedule that the for loop is at
Current == due[dueIdx]

\* lines 298-300 on the played set: emptied when the minute key changes
played_after_key_check_always(key, last, played) == {}

played_after_key_check_never(key, last, played) == played

played_after_key_check(key, last, played) ==
    IF key # last THEN {} ELSE played

\* where an exception raised inside the try block leaves the thread: without
\* the handler it would unwind to the finally clause of start()
after_exception_unhandled == "finally"

\* lines 311-315: logged, then the sleep and the while test
after_exception == "top"

\* one more call of _ring_bell for pk in the calendar minute m
Counted(count, pk, m) ==
    [count EXCEPT ![pk] = [@ EXCEPT ![m] = IF @ < 2 THEN @ + 1 ELSE 2]]

\* start(): self._running = True, the signal handlers, then _loop()
BellScheduler_start ==
    /\ pc["loop"] = "off"
    /\ running' = TRUE
    /\ pc' = [pc EXCEPT !["loop"] = "top"]
    /\ UNCHANGED <<storeVars, resp, playVars, arg, target, played_this_minute,
                   last_minute, tickNow, due, dueIdx, lastIter, clockVars,
                   ringVars>>

\* _handle_signal: SIGINT or SIGTERM while the process runs
handle_signal ==
    /\ pc["loop"] \notin {"off", "stopped"}
    /\ running
    /\ running' = FALSE
    /\ UNCHANGED <<storeVars, resp, playVars, callerVars, played_this_minute,
                   last_minute, tickNow, due, dueIdx, lastIter, clockVars,
                   ringVars>>

\* lines 292-303: the while test holds; read the clock, reset the played set
\* on a new minute key, ask the resolver
loop_tick ==
    /\ pc["loop"] = "top"
    /\ running
    /\ LET now == ClockPoints[clock]
           current_minute == strftime_HM(now.time)
       IN  /\ tickNow' = ClockPoints[clock]
           /\ ticked' = TRUE
           /\ played_this_minute' =
                  played_after_key_check(current_minute, last_minute,
                                         played_this_minute)
           /\ last_minute' = current_minute
           /\ due' = get_due_schedules(now)
           /\ dueIdx' = 1
           /\ lastIter' = "running"
           /\ pc' = [pc EXCEPT !["loop"] = "ring"]
    /\ UNCHANGED <<storeVars, resp, playVars, arg, target, running, clock,
                   ringVars>>

\* lines 292-303 when the query of the resolver raises (the database is
\* locked or gone): caught at line 311
loop_tick_raises ==
    /\ pc["loop"] = "top"
    /\ running
    /\ LET now == ClockPoints[clock]
           current_minute == strftime_HM(now.time)
       IN  /\ tickNow' = ClockPoints[clock]
           /\ ticked' = TRUE
           /\ played_this_minute' =
                  played_after_key_check(current_minute, last_minute,
                                         played_this_minute)
           /\ last_minute' = current_minute
           /\ due' = <<>>
           /\ dueIdx' = 1
           /\ lastIter' = "raised"
           /\ pc' = [pc EXCEPT !["loop"] = after_exception]
    /\ UNCHANGED <<storeVars, resp, playVars, arg, target, running, clock,
                   ringVars>>

\* lines 304-306: the schedule is in the played set, continue
loop_skip_played ==
    /\ pc["loop"] = "ring"
    /\ dueIdx <= Len(due)
    /\ Current.pk \in played_this_minute
    /\ dueIdx' = dueIdx + 1
    /\ UNCHANGED <<storeVars, resp, playVars, callerVars, running,
                   played_this_minute, last_minute, tickNow, due, lastIter,
                   clockVars, ringVars>>

\* lines 308-309 and _ring_bell with a clip: the pk joins the played set,
\* then play_audio is called
loop_ring_clip ==
    /\ pc["loop"] = "ring"
    /\ dueIdx <= Len(due)
    /\ Current.pk \notin played_this_minute
    /\ Current.file
    /\ played_this_minute' = played_this_minute \cup {Current.pk}
    /\ ringCount' = Counted(ringCount, Current.pk,
                            CalMinute(tickNow))
    /\ arg' = [arg EXCEPT !["loop"] =
                  [clip |-> Current.musik,
                   name |-> Name(Current.nama, Current.musik)]]
    /\ pc' = [pc EXCEPT !["loop"] = "pa_clear"]
    /\ dueIdx' = dueIdx + 1
    /\ UNCHANGED <<storeVars, resp, playVars, target, running, last_minute,
                   tickNow, due, lastIter, clockVars>>

\* a silent bell that asks the playing clip to stop
loop_ring_silent_stops_playback ==
    /\ pc["loop"] = "ring"
    /\ dueIdx <= Len(due)
    /\ Current.pk \notin played_this_minute
    /\ ~Current.file
    /\ played_this_minute' = played_this_minute \cup {Current.pk}
    /\ ringCount' = Counted(ringCount, Current.pk,
                            CalMinute(tickNow))
    /\ dueIdx' = dueIdx + 1
    /\ stop_playback' = TRUE
    /\ UNCHANGED <<storeVars, resp, current_player_lock,
                   current_playback_thread, current_playing_name, threads,
                   callerVars, running, last_minute, tickNow, due, lastIter,
                   clockVars>>

\* lines 308-309 and _ring_bell without a clip: a warning, no sound
loop_ring_silent ==
    /\ pc["loop"] = "ring"
    /\ dueIdx <= Len(due)
    /\ Current.pk \notin played_this_minute
    /\ ~Current.file
    /\ played_this_minute' = played_this_minute \cup {Current.pk}
    /\ ringCount' = Counted(ringCount, Current.pk,
                            CalMinute(tickNow))
    /\ dueIdx' = dueIdx + 1
    /\ UNCHANGED <<storeVars, resp, playVars, callerVars, running, last_minute,
                   tickNow, due, lastIter, clockVars>>

\* lines 308-309 when _ring_bell raises on its way to play_audio (the path
\* of the file, the start of the thread): the pk is in the played set
\* already; caught at line 311, the rest of due waits for the next tick
loop_ring_raises ==
    /\ pc["loop"] = "ring"
    /\ dueIdx <= Len(due)
    /\ Current.pk \notin played_this_minute
    /\ Current.file
    /\ played_this_minute' = played_this_minute \cup {Current.pk}
    /\ ringCount' = Counted(ringCount, Current.pk,
                            CalMinute(tickNow))
    /\ lastIter' = "raised"
    /\ pc' = [pc EXCEPT !["loop"] = after_exception]
    /\ UNCHANGED <<storeVars, resp, playVars, arg, target, running, last_minute,
                   tickNow, due, dueIdx, clockVars>>

\* the for loop is over: line 315, the sleep, and back to the while test
loop_sleep ==
    /\ pc["loop"] = "ring"
    /\ dueIdx > Len(due)
    /\ lastIter' = "ok"
    /\ pc' = [pc EXCEPT !["loop"] = "top"]
    /\ UNCHANGED <<storeVars, resp, playVars, arg, target, running,
                   played_this_minute, last_minute, tickNow, due, dueIdx,
                   clockVars, ringVars>>

\* a loop that does not look at self._running: "while True"
loop_exit_never ==
    /\ pc["loop"] = "top"
    /\ ~running
    /\ UNCHANGED vars

\* line 292: the while test fails, _loop returns into the finally of start()
loop_exit ==
    /\ pc["loop"] = "top"
    /\ ~running
    /\ pc' = [pc EXCEPT !["loop"] = "finally"]
    /\ UNCHANGED <<storeVars, resp, playVars, arg, target, loopVars, clockVars,
                   ringVars>>

\* a stop() that leaves the playback alone: line 284 left out
BellScheduler_stop_without_stop_audio ==
    /\ pc["loop"] = "finally"
    /\ running' = FALSE
    /\ pc' = [pc EXCEPT !["loop"] = "stopped"]
    /\ UNCHANGED <<storeVars, resp, playVars, arg, target, played_this_minute,
                   last_minute, tickNow, due, dueIdx, lastIter, clockVars,
                   ringVars>>

\* stop(): self._running = False, then stop_audio()
BellScheduler_stop ==
    /\ pc["loop"] = "finally"
    /\ running' = FALSE
    /\ pc' = [pc EXCEPT !["loop"] = "sa_enter"]
    /\ UNCHANGED <<storeVars, resp, playVars, arg, target, played_this_minute,
                   last_minute, tickNow, due, dueIdx, lastIter, clockVars,
                   ringVars>>

\* time passes to the next instant.  The loop sleeps 0.5 s between two reads
\* of the clock and play_audio holds it for at most 10 s a clip, so a running
\* loop has read the clock at every instant of ClockPoints.  Time is followed
\* from the start of the scheduler until a stop is requested
clock_advance ==
    /\ clock < Len(ClockPoints)
    /\ pc["loop"] \in RunningPcs
    /\ running
    /\ ticked
    /\ clock' = clock + 1
    /\ ticked' = FALSE
    /\ UNCHANGED <<storeVars, resp, playVars, callerVars, loopVars, ringVars>>

-----------------------------------------------------------------------------
(* The store under the administrative views *)

Call(fn, hari_list, jam_list, musik_pk, exclude_pks) ==
    [fn |-> fn, hari_list |-> hari_list, jam_list |-> jam_list,
     musik_pk |-> musik_pk, exclude_pks |-> exclude_pks]

NoResp == [call |-> Call("none", <<>>, <<>>, 0, {}), errors |-> <<>>]

\* BellScheduler.__init__, before start(); the clock at its first instant and
\* no ring counted; the request threads of the web server idle
SchedulerInit ==
    /\ running = FALSE
    /\ played_this_minute = {}
    /\ last_minute = <<>>
    /\ tickNow = ClockPoints[1]
    /\ due = <<>>
    /\ dueIdx = 1
    /\ lastIter = "none"
    /\ clock = 1
    /\ ticked = FALSE
    /\ ringCount = [pk \in 1..MaxPk |-> [m \in CalMinutes |-> 0]]
    /\ pc = [c \in Callers |-> IF c = "loop" THEN "off" ELSE "idle"]

StoreInit ==
    /\ jadwal = {}
    /\ pengecualian = {}
    /\ musik = InitMusik
    /\ nextPk = 1
    /\ resp = NoResp
    /\ PlaybackInit
    /\ SchedulerInit

CreateRequest ==
    /\ \E f \in Forms :
          jadwal_create_view(f.nama, f.hari, f.jam, f.musik, f.aktif)
    /\ UNCHANGED restVars

GroupEditRequest ==
    /\ \E nama \in GroupNames, f \in Forms :
          jadwal_group_edit_view(nama, f.nama, f.hari, f.jam, f.musik, f.aktif)
    /\ UNCHANGED restVars

DeleteRequest ==
    /\ \E pk \in 1..MaxPk : jadwal_delete_view(pk)
    /\ UNCHANGED restVars

GroupDeleteRequest ==
    /\ \E nama \in GroupNames : jadwal_group_delete_view(nama)
    /\ UNCHANGED restVars

ToggleRequest ==
    /\ \E pk \in 1..MaxPk : jadwal_toggle_view(pk)
    /\ UNCHANGED restVars

GroupToggleRequest ==
    /\ \E nama \in GroupNames : jadwal_group_toggle_view(nama)
    /\ UNCHANGED restVars

MusikDeleteRequest ==
    /\ \E m \in musik : musik_delete_view(m.pk)
    /\ UNCHANGED restVars

PengecualianCreateRequest ==
    /\ \E tanggal \in DateInputs, ids \in SUBSET (1..MaxPk) :
          pengecualian_create_view(tanggal, ids)
    /\ UNCHANGED restVars

PengecualianDeleteRequest ==
    /\ \E p \in pengecualian : pengecualian_delete_view(p)
    /\ UNCHANGED restVars

StoreNext ==
    \/ CreateRequest
    \/ GroupEditRequest
    \/ DeleteRequest
    \/ GroupDeleteRequest
    \/ ToggleRequest
    \/ GroupToggleRequest

StoreSpec == StoreInit /\ [][StoreNext]_vars

-----------------------------------------------------------------------------
(* The conflict validator as a function of the store and its arguments *)

\* the rows a store may hold when the validator is called: any rows at all,
\* since the toggles and the admin site (dashboard/admin.py) write rows that
\* no validator has seen
ValidatorRows(pk, names) ==
    {[pk |-> pk, nama |-> n, hari |-> h, jam |-> t, musik |-> m, aktif |-> a] :
        n \in names, h \in {"senin", "selasa"},
        t \in {Time(8, 0, 0), Time(8, 1, 0)}, m \in {0, 1, 2}, a \in BOOLEAN}

ValidatorStores ==
    {{}} \cup {{r1} : r1 \in ValidatorRows(1, {"A"})}
         \cup {{r1, r2} : r1 \in ValidatorRows(1, {"A"}),
                          r2 \in ValidatorRows(2, {"A", "B"})}

\* the weekday and time lists the views pass: weekdays without repetition,
\* times as a sorted set of texts
ValidatorHariLists == {<<"senin">>, <<"selasa", "senin">>}

ValidatorJamLists == {<<T0800>>, <<T0801>>, <<T0800, T0801>>, <<T0800, T800>>,
                      <<T0800, T0801, T0802>>}

ValidatorInit ==
    /\ jadwal \in ValidatorStores
    /\ pengecualian = {}
    /\ musik = InitMusik
    /\ nextPk = 3
    /\ resp = NoResp
    /\ PlaybackInit
    /\ SchedulerInit

ValidateCall ==
    /\ resp.call.fn = "none"
    /\ \E hari_list \in ValidatorHariLists, jam_list \in ValidatorJamLists,
          musik_pk \in {0, 1, 2}, exclude_pks \in SUBSET {1, 2} :
          resp' = [call |-> Call("validate", hari_list, jam_list, musik_pk,
                                 exclude_pks),
                   errors |-> validate_schedule_conflicts(hari_list, jam_list,
                                  musik_pk, exclude_pks)]
    /\ UNCHANGED <<storeVars, playVars, callerVars, loopVars, clockVars,
                   ringVars>>

ValidatorNext == ValidateCall

ValidatorSpec == ValidatorInit /\ [][ValidatorNext]_vars

-----------------------------------------------------------------------------
(* The playback controller in the web server's process *)

\* the clips of the library: two on disk, one whose file is gone
PlayMusik == InitMusik \cup {[pk |-> 3, durasi |-> 100, file |-> TRUE,
                              disk |-> FALSE]}

PlayInit ==
    /\ jadwal = {}
    /\ pengecualian = {}
    /\ musik = PlayMusik
    /\ nextPk = 1
    /\ resp = NoResp
    /\ PlaybackInit
    /\ SchedulerInit

PlayNext ==
    \/ TestPlayRequest
    \/ StopPlayRequest
    \/ PlaybackCall
    \/ ThreadStep

PlaySpec == PlayInit /\ [][PlayNext]_vars

-----------------------------------------------------------------------------
(* The due-schedule resolver as a function of the store and the clock *)

\* a JadwalBel row
Row(pk, nama, hari, jam, musik_pk, aktif) ==
    [pk |-> pk, nama |-> nama, hari |-> hari, jam |-> jam, musik |-> musik_pk,
     aktif |-> aktif]

ResolverRows(pk) ==
    {Row(pk, "A", h, t, 0, a) :
        h \in {"senin", "selasa", "minggu"},
        t \in {Time(8, 0, 0), Time(8, 0, 30), Time(9, 0, 0)},
        a \in BOOLEAN}

ResolverStores ==
    {{}} \cup {{r1} : r1 \in ResolverRows(1)}
         \cup {{r1, r2} : r1 \in ResolverRows(1), r2 \in ResolverRows(2)}

\* the exceptions a store may hold: at most MaxPengecualian + 1 of them, on
\* rows of the store
ResolverExceptions(rows) ==
    {E \in SUBSET {[tanggal |-> d, jadwal |-> r.pk] : d \in {0, 7}, r \in rows} :
        Cardinality(E) <= MaxPengecualian + 1}

ResolverNows ==
    {[date |-> d, time |-> t] :
        d \in {0, 1, 6, 7},
        t \in {Time(8, 0, 0), Time(8, 0, 59), Time(8, 1, 0)}}

ResolverInit ==
    /\ jadwal \in ResolverStores
    /\ pengecualian \in ResolverExceptions(jadwal)
    /\ musik = InitMusik
    /\ nextPk = 3
    /\ resp = NoResp
    /\ PlaybackInit
    /\ SchedulerInit

\* one call of _get_due_schedules(now)
ResolveCall ==
    /\ lastIter = "none"
    /\ \E now \in ResolverNows :
          /\ tickNow' = now
          /\ due' = get_due_schedules(now)
    /\ lastIter' = "called"
    /\ UNCHANGED <<storeVars, resp, playVars, callerVars, running,
                   played_this_minute, last_minute, dueIdx, clockVars,
                   ringVars>>

ResolverNext == ResolveCall

ResolverSpec == ResolverInit /\ [][ResolverNext]_vars

-----------------------------------------------------------------------------
(* The next bell as a function of the store and the clock *)

NextBellInit ==
    /\ jadwal \in ResolverStores
    /\ pengecualian = {}
    /\ musik = InitMusik
    /\ nextPk = 3
    /\ resp = NoResp
    /\ PlaybackInit
    /\ SchedulerInit

\* one call of _get_next_bell(now)
NextBellCall ==
    /\ resp.call.fn = "none"
    /\ \E now \in ResolverNows :
          \E bell \in get_next_bell(now) :
              resp' = [call |-> [fn |-> "next_bell", now |-> now],
                       errors |-> <<>>,
                       result |-> bell]
    /\ UNCHANGED <<storeVars, playVars, callerVars, loopVars, clockVars,
                   ringVars>>

NextBellNext == NextBellCall

NextBellSpec == NextBellInit /\ [][NextBellNext]_vars

-----------------------------------------------------------------------------
(* The next bell as a function of the store, the exceptions and the clock *)

\* the tables of a call: schedules, and exceptions on their rows for the two
\* Mondays
SuppressedInit ==
    /\ jadwal \in ResolverStores
    /\ pengecualian \in ResolverExceptions(jadwal)
    /\ musik = InitMusik
    /\ nextPk = 3
    /\ resp = NoResp
    /\ PlaybackInit
    /\ SchedulerInit

SuppressedNext == NextBellCall

SuppressedSpec == SuppressedInit /\ [][SuppressedNext]_vars

-----------------------------------------------------------------------------
(* One submission of the create form or of the group edit form *)

\* what the browser gets back: the messages of the view (none on success)
\* and the count of the success message; with the form that was sent and the
\* table as it was before
Answer(fn, nama, f, errors, created) ==
    [call |-> [fn |-> fn, nama |-> nama, form |-> f],
     errors |-> errors,
     created |-> IF errors = <<>> THEN created ELSE 0,
     before |-> jadwal,
     exceptions |-> pengecualian]

\* the exceptions a store of one row may hold before the submission: none,
\* or one on its row, on a date of the row's weekday
FormExceptions(rows) ==
    {E \in SUBSET {[tanggal |-> d, jadwal |-> r.pk] : d \in {0, 1}, r \in rows} :
        /\ Cardinality(E) <= 1
        /\ E # {} => Cardinality(rows) = 1
        /\ \A e \in E, r \in rows :
              e.jadwal = r.pk
                 => r.aktif /\ r.hari = WEEKDAY_MAP(Weekday(e.tanggal))}

FormInit ==
    /\ jadwal \in ValidatorStores
    /\ pengecualian \in FormExceptions(jadwal)
    /\ musik = InitMusik
    /\ nextPk = Cardinality(jadwal) + 1
    /\ resp = NoResp
    /\ PlaybackInit
    /\ SchedulerInit

\* POST jadwal/tambah/
SubmitCreate ==
    /\ resp.call.fn = "none"
    /\ \E f \in Forms :
          /\ jadwal_create_view(f.nama, f.hari, f.jam, f.musik, f.aktif)
          /\ resp' = Answer("create", "", f,
                        CreateErrors(f.nama, DedupSeq(f.hari),
                                     SortedSet(SeqRange(f.jam)), f.musik,
                                     f.aktif),
                        Len(DedupSeq(f.hari)) * Len(SortedSet(SeqRange(f.jam))))
    /\ UNCHANGED <<playVars, callerVars, loopVars, clockVars, ringVars>>

\* POST jadwal/grup/<nama>/edit/
SubmitGroupEdit ==
    /\ resp.call.fn = "none"
    /\ \E nama \in GroupNames, f \in Forms :
          /\ jadwal_group_edit_view(nama, f.nama, f.hari, f.jam, f.musik,
                                    f.aktif)
          /\ resp' = Answer("edit", nama, f,
                        GroupEditErrors(nama, f.nama, DedupSeq(f.hari),
                                        SortedSet(SeqRange(f.jam)), f.musik,
                                        f.aktif),
                        Len(DedupSeq(f.hari)) * Len(SortedSet(SeqRange(f.jam))))
    /\ UNCHANGED <<playVars, callerVars, loopVars, clockVars, ringVars>>

FormNext ==
    \/ SubmitCreate
    \/ SubmitGroupEdit

FormSpec == FormInit /\ [][FormNext]_vars

-----------------------------------------------------------------------------
(* The group edit statement by statement, next to the scheduler's reads *)

\* the view holds no transaction (no transaction.atomic in views.py), so
\* every ORM call of lines 757-768 is committed on its own and the store
\* between two of them is what another process reads

\* the request in progress: the answer so far, with the rows created so far
Running(nama, f) ==
    [call |-> [fn |-> "edit_running", nama |-> nama, form |-> f],
     errors |-> <<>>,
     created |-> 0,
     before |-> jadwal,
     exceptions |-> pengecualian]

\* the weekday and time lists of the request in progress (lines 672-673)
EditHari == DedupSeq(resp.call.form.hari)

EditJam == SortedSet(SeqRange(resp.call.form.jam))

ReplaceInit ==
    /\ jadwal \in {s \in ValidatorStores : Cardinality(s) <= 1}
    /\ pengecualian = {}
    /\ musik = InitMusik
    /\ nextPk = Cardinality(jadwal) + 1
    /\ resp = NoResp
    /\ PlaybackInit
    /\ SchedulerInit

\* lines 664-757: the checks; with errors the answer, else group_qs.delete()
edit_check_and_delete ==
    /\ resp.call.fn = "none"
    /\ \E nama \in GroupNames, f \in Forms :
          LET hari_list == DedupSeq(f.hari)
              jam_list == SortedSet(SeqRange(f.jam))
              errors == GroupEditErrors(nama, f.nama, hari_list, jam_list,
                                        f.musik, f.aktif)
          IN  /\ GroupRows(nama) # {}
              /\ IF errors # <<>>
                 THEN /\ resp' = Answer("edit", nama, f, errors, 0)
                      /\ UNCHANGED <<jadwal, pengecualian>>
                 ELSE /\ nextPk + Len(hari_list) * Len(jam_list) - 1 <= MaxPk
                      /\ jadwal' = jadwal \ GroupRows(nama)
                      /\ pengecualian' =
                            {p \in pengecualian :
                                p.jadwal \notin Pks(GroupRows(nama))}
                      /\ resp' = Running(nama, f)
    /\ UNCHANGED <<musik, nextPk, playVars, callerVars, loopVars, clockVars,
                   ringVars>>

\* lines 759-768: one JadwalBel.objects.create of the double loop
edit_create_row ==
    /\ resp.call.fn = "edit_running"
    /\ resp.created < Len(EditHari) * Len(EditJam)
    /\ LET f == resp.call.form
           rows == NewRows(f.nama, EditHari, EditJam, MusikPk(f.musik),
                           f.aktif, nextPk - resp.created)
       IN  jadwal' = jadwal \cup {r \in rows : r.pk = nextPk}
    /\ nextPk' = nextPk + 1
    /\ resp' = [resp EXCEPT !.created = @ + 1]
    /\ UNCHANGED <<pengecualian, musik, playVars, callerVars, loopVars,
                   clockVars, ringVars>>

\* lines 770-771: the success message and the redirect
edit_redirect ==
    /\ resp.call.fn = "edit_running"
    /\ resp.created = Len(EditHari) * Len(EditJam)
    /\ resp' = [resp EXCEPT !.call.fn = "edit"]
    /\ UNCHANGED <<storeVars, playVars, callerVars, loopVars, clockVars,
                   ringVars>>

\* a tick of the scheduler's process: _get_due_schedules reads the store as
\* it is
scheduler_reads ==
    /\ \E now \in ResolverNows :
          /\ tickNow' = now
          /\ due' = get_due_schedules(now)
    /\ lastIter' = "called"
    /\ UNCHANGED <<storeVars, resp, playVars, callerVars, running,
                   played_this_minute, last_minute, dueIdx, clockVars,
                   ringVars>>

ReplaceNext ==
    \/ edit_check_and_delete
    \/ edit_create_row
    \/ edit_redirect
    \/ scheduler_reads

ReplaceSpec == ReplaceInit /\ [][ReplaceNext]_vars

-----------------------------------------------------------------------------
(* The time conversions as functions of their argument *)

\* offsets in seconds: the first of the day, those around midnight and those
\* of a clip that ends a day later
SecondsInputs ==
    {0, 1, 59, 60, 61, 3599, 3600, 3661, 28800, 28890, 43200}
    \cup (86380..86420) \cup {90000, 172799, 172800}

TimeInputs ==
    {Time(h, m, sec) : h \in {0, 8, 12, 23}, m \in {0, 1, 30, 59},
                       sec \in {0, 1, 30, 59}}

TimeFormatInit ==
    /\ jadwal = {}
    /\ pengecualian = {}
    /\ musik = InitMusik
    /\ nextPk = 1
    /\ resp = NoResp
    /\ PlaybackInit
    /\ SchedulerInit

\* one call of _seconds_to_time_str(n)
FormatCall ==
    /\ resp.call.fn = "none"
    /\ \E n \in SecondsInputs :
          resp' = [call |-> [fn |-> "seconds_to_time_str", n |-> n],
                   errors |-> <<>>,
                   result |-> seconds_to_time_str(n)]
    /\ UNCHANGED <<storeVars, playVars, callerVars, loopVars, clockVars,
                   ringVars>>

\* one call of _time_to_seconds(t), and its result formatted
ConvertCall ==
    /\ resp.call.fn = "none"
    /\ \E t \in TimeInputs :
          resp' = [call |-> [fn |-> "time_to_seconds", t |-> t],
                   errors |-> <<>>,
                   seconds |-> time_to_seconds(t),
                   result |-> seconds_to_time_str(time_to_seconds(t))]
    /\ UNCHANGED <<storeVars, playVars, callerVars, loopVars, clockVars,
                   ringVars>>

TimeFormatNext ==
    \/ FormatCall
    \/ ConvertCall

TimeFormatSpec == TimeFormatInit /\ [][TimeFormatNext]_vars

-----------------------------------------------------------------------------
(* The interval test as a function of its four arguments *)

\* starts and ends in seconds, those of section 8 among them
OverlapPoints == {0, 10, 15, 20, 25, 30}

OverlapInit ==
    /\ jadwal = {}
    /\ pengecualian = {}
    /\ musik = InitMusik
    /\ nextPk = 1
    /\ resp = NoResp
    /\ PlaybackInit
    /\ SchedulerInit

\* one call of _interval_overlaps and the call with the intervals swapped
OverlapCall ==
    /\ resp.call.fn = "none"
    /\ \E start_a \in OverlapPoints, end_a \in OverlapPoints,
          start_b \in OverlapPoints, end_b \in OverlapPoints :
          resp' = [call |-> [fn |-> "overlaps", start_a |-> start_a,
                             end_a |-> end_a, start_b |-> start_b,
                             end_b |-> end_b],
                   errors |-> <<>>,
                   result |-> interval_overlaps(start_a, end_a, start_b, end_b),
                   swapped |-> interval_overlaps(start_b, end_b, start_a, end_a)]
    /\ UNCHANGED <<storeVars, playVars, callerVars, loopVars, clockVars,
                   ringVars>>

OverlapNext == OverlapCall

OverlapSpec == OverlapInit /\ [][OverlapNext]_vars

-----------------------------------------------------------------------------
(* The store under all the administrative views, exceptions and clips too *)

\* forms of one time that name a clip
AdminForms ==
    {f \in GoodForms : f.jam = <<T0800>> /\ f.musik.kind = "int"}
    \cup {Form("A", <<"senin", "libur">>, <<T0800>>, MusikId("empty", 0), TRUE)}

AdminCreateRequest ==
    /\ \E f \in AdminForms :
          jadwal_create_view(f.nama, f.hari, f.jam, f.musik, f.aktif)
    /\ UNCHANGED restVars

AdminGroupEditRequest ==
    /\ \E nama \in GroupNames, f \in AdminForms :
          jadwal_group_edit_view(nama, f.nama, f.hari, f.jam, f.musik, f.aktif)
    /\ UNCHANGED restVars

AdminNext ==
    \/ AdminCreateRequest
    \/ AdminGroupEditRequest
    \/ DeleteRequest
    \/ GroupDeleteRequest
    \/ ToggleRequest
    \/ GroupToggleRequest
    \/ MusikDeleteRequest
    \/ PengecualianCreateRequest
    \/ PengecualianDeleteRequest

AdminSpec == StoreInit /\ [][AdminNext]_vars

-----------------------------------------------------------------------------
(* Exception requests statement by statement, two at a time *)

Requesters == {"w1", "w2"}

\* the schedules of the run: a Monday bell, with a Tuesday bell or with an
\* inactive Monday bell
ExceptionStores ==
    {{Row(1, "A", "senin", Time(8, 0, 0), 0, TRUE),
      Row(2, "A", "selasa", Time(8, 0, 0), 0, TRUE)},
     {Row(1, "A", "senin", Time(8, 0, 0), 0, TRUE),
      Row(2, "B", "senin", Time(9, 0, 0), 0, FALSE)}}

\* request.POST.getlist('jadwal')
JadwalIdInputs == {<<1>>, <<1, 1>>, <<2, 1>>, <<3>>}

\* a request that is not running: no form, nothing counted
IdleRequest ==
    [at |-> "idle", tanggal |-> 0, jadwal_ids |-> <<>>, idx |-> 1,
     created |-> 0, skipped |-> 0]

ExceptionInit ==
    /\ jadwal \in ExceptionStores
    /\ pengecualian = EmptyBag
    /\ musik = InitMusik
    /\ nextPk = 3
    /\ resp = [call |-> [fn |-> "exceptions"], errors |-> <<>>,
               req |-> [w \in Requesters |-> IdleRequest]]
    /\ PlaybackInit
    /\ SchedulerInit

ExceptionRow(tanggal, pk) == [tanggal |-> tanggal, jadwal |-> pk]

\* the row the request is about to look for or to insert
CurrentRow(q) == ExceptionRow(q.tanggal, q.jadwal_ids[q.idx])

\* JadwalBel.objects.get(pk=int(jid), aktif=True, hari=hari_key) finds a row
Matches(q) ==
    \E r \in jadwal : /\ r.pk = q.jadwal_ids[q.idx]
                      /\ r.aktif
                      /\ r.hari = WEEKDAY_MAP(Weekday(q.tanggal))

\* the next id of the loop, or the messages and the redirect after the last
Continue(q) ==
    IF q.idx < Len(q.jadwal_ids) THEN [q EXCEPT !.at = "get", !.idx = @ + 1]
    ELSE [q EXCEPT !.at = "done"]

\* an insert that no constraint stops
unique_together_off(table, row) == TRUE

\* Meta.unique_together = ['tanggal', 'jadwal']: the insert of the row is
\* accepted
unique_together(table, row) == ~BagIn(row, table)

\* what the exception requests leave alone
exceptionFrame == <<jadwal, musik, nextPk, playVars, callerVars, loopVars,
                    clockVars, ringVars>>

\* the POST arrives: the date and the ids are read
exception_post(w) ==
    /\ resp.req[w].at = "idle"
    /\ \E tanggal \in {0, 1}, jadwal_ids \in JadwalIdInputs :
          resp' = [resp EXCEPT !.req[w] =
                      [IdleRequest EXCEPT !.at = "get",
                                          !.tanggal = tanggal,
                                          !.jadwal_ids = jadwal_ids]]
    /\ UNCHANGED <<pengecualian, exceptionFrame>>

\* JadwalBel.objects.get and the first get of get_or_create
exception_get(w) ==
    LET q == resp.req[w]
    IN  /\ q.at = "get"
        /\ resp' = [resp EXCEPT !.req[w] =
                      IF ~Matches(q) THEN Continue(q)
                      ELSE IF BagIn(CurrentRow(q), pengecualian)
                           THEN Continue([q EXCEPT !.skipped = @ + 1])
                           ELSE [q EXCEPT !.at = "create"]]
        /\ UNCHANGED <<pengecualian, exceptionFrame>>

\* the create of get_or_create: the row is inserted, or the table refuses it
\* (IntegrityError) and get_or_create looks again
exception_create(w) ==
    LET q == resp.req[w]
    IN  /\ q.at = "create"
        /\ IF unique_together(pengecualian, CurrentRow(q))
           THEN /\ pengecualian' = pengecualian (+) SetToBag({CurrentRow(q)})
                /\ resp' = [resp EXCEPT !.req[w] =
                               Continue([q EXCEPT !.created = @ + 1])]
           ELSE /\ resp' = [resp EXCEPT !.req[w].at = "get_again"]
                /\ UNCHANGED pengecualian
        /\ UNCHANGED exceptionFrame

\* the get after an IntegrityError: the row of the other request, or the
\* IntegrityError is raised again when that row is gone
exception_get_again(w) ==
    LET q == resp.req[w]
    IN  /\ q.at = "get_again"
        /\ resp' = [resp EXCEPT !.req[w] =
                      IF BagIn(CurrentRow(q), pengecualian)
                      THEN Continue([q EXCEPT !.skipped = @ + 1])
                      ELSE [q EXCEPT !.at = "failed"]]
        /\ UNCHANGED <<pengecualian, exceptionFrame>>

\* the answer is sent; the requester is free for another request
exception_answered(w) ==
    /\ resp.req[w].at \in {"done", "failed"}
    /\ resp' = [resp EXCEPT !.req[w] = IdleRequest]
    /\ UNCHANGED <<pengecualian, exceptionFrame>>

\* pengecualian_delete_view(pk): one row of the table is deleted
exception_delete ==
    /\ \E e \in BagToSet(pengecualian) :
          pengecualian' = pengecualian (-) SetToBag({e})
    /\ UNCHANGED <<resp, exceptionFrame>>

ExceptionNext ==
    \/ \E w \in Requesters : exception_post(w)
    \/ \E w \in Requesters : exception_get(w)
    \/ \E w \in Requesters : exception_create(w)
    \/ \E w \in Requesters : exception_get_again(w)
    \/ \E w \in Requesters : exception_answered(w)
    \/ exception_delete

ExceptionSpec == ExceptionInit /\ [][ExceptionNext]_vars

-----------------------------------------------------------------------------
(* Two create or group edit submissions statement by statement *)

\* the web server answers requests in threads and the views hold neither a
\* transaction nor a lock (no transaction.atomic in views.py), so the checks
\* of one request and every JadwalBel.objects.create of its double loop are
\* committed on their own, between the statements of another request

\* the forms of the run: one weekday, one time, no clip or the 90 s clip
RaceForms ==
    {f \in GoodForms : /\ f.hari = <<"senin">>
                       /\ f.jam \in {<<T0800>>, <<T0801>>}
                       /\ f.musik \in {MusikId("empty", 0), MusikId("int", 1)}}

\* the table before the run: empty, or the bell of group A at senin 08:00
RaceStores == {{}, {Row(1, "A", "senin", Time(8, 0, 0), 0, TRUE)}}

\* a request that has not arrived
NoSubmission ==
    [at |-> "idle", fn |-> "none", nama |-> "",
     form |-> Form("", <<>>, <<>>, MusikId("empty", 0), FALSE),
     created |-> 0, pks |-> {}]

\* the number of rows the double loop of a request creates
BatchSize(q) ==
    Len(DedupSeq(q.form.hari)) * Len(SortedSet(SeqRange(q.form.jam)))

\* the creates the running requests have still to make
PendingCreates ==
    LET left(w) == IF resp.req[w].at = "insert"
                   THEN BatchSize(resp.req[w]) - resp.req[w].created ELSE 0
    IN  left("w1") + left("w2")

RaceInit ==
    /\ jadwal \in RaceStores
    /\ pengecualian = {}
    /\ musik = InitMusik
    /\ nextPk = Cardinality(jadwal) + 1
    /\ resp = [call |-> [fn |-> "submissions"], errors |-> <<>>,
               req |-> [w \in Requesters |-> NoSubmission]]
    /\ PlaybackInit
    /\ SchedulerInit

\* what the submissions leave alone
raceFrame == <<pengecualian, musik, playVars, callerVars, loopVars,
               clockVars, ringVars>>

\* jadwal_create_view, lines 535-608: the checks against the table as it is;
\* with errors the form again, else the double loop is next
create_check(w) ==
    /\ resp.req[w].at = "idle"
    /\ \E f \in RaceForms :
          LET hari_list == DedupSeq(f.hari)
              jam_list == SortedSet(SeqRange(f.jam))
              errors == CreateErrors(f.nama, hari_list, jam_list, f.musik,
                                     f.aktif)
              q == [NoSubmission EXCEPT !.fn = "create", !.form = f]
          IN  /\ nextPk + PendingCreates + BatchSize(q) - 1 <= MaxPk
              /\ resp' = [resp EXCEPT !.req[w] =
                             [q EXCEPT !.at = IF errors # <<>> THEN "rejected"
                                              ELSE "insert"]]
    /\ UNCHANGED <<jadwal, nextPk, raceFrame>>

\* jadwal_group_edit_view, lines 648-757: the checks against the table as it
\* is; with errors the form again, else group_qs.delete() and the double
\* loop is next
group_edit_check(w) ==
    /\ resp.req[w].at = "idle"
    /\ \E nama \in GroupNames, f \in RaceForms :
          LET hari_list == DedupSeq(f.hari)
              jam_list == SortedSet(SeqRange(f.jam))
              errors == GroupEditErrors(nama, f.nama, hari_list, jam_list,
                                        f.musik, f.aktif)
              q == [NoSubmission EXCEPT !.fn = "edit", !.nama = nama,
                                        !.form = f]
          IN  /\ GroupRows(nama) # {}
              /\ nextPk + PendingCreates + BatchSize(q) - 1 <= MaxPk
              /\ IF errors # <<>>
                 THEN /\ resp' = [resp EXCEPT !.req[w] =
                                     [q EXCEPT !.at = "rejected"]]
                      /\ UNCHANGED jadwal
                 ELSE /\ resp' = [resp EXCEPT !.req[w] =
                                     [q EXCEPT !.at = "insert"]]
                      /\ jadwal' = jadwal \ GroupRows(nama)
    /\ UNCHANGED <<nextPk, raceFrame>>

\* lines 613-624 and 759-768: one JadwalBel.objects.create of the double
\* loop; the table hands out the next pk
create_row(w) ==
    LET q == resp.req[w]
        f == q.form
        rows == NewRows(f.nama, DedupSeq(f.hari), SortedSet(SeqRange(f.jam)),
                        MusikPk(f.musik), f.aktif, 1)
    IN  /\ q.at = "insert"
        /\ q.created < BatchSize(q)
        /\ jadwal' = jadwal \cup {[r EXCEPT !.pk = nextPk] :
                                     r \in {x \in rows : x.pk = q.created + 1}}
        /\ nextPk' = nextPk + 1
        /\ resp' = [resp EXCEPT !.req[w].created = @ + 1,
                                !.req[w].pks = @ \cup {nextPk}]
        /\ UNCHANGED raceFrame

\* lines 626-627 and 770-771: the success message and the redirect
submission_redirect(w) ==
    /\ resp.req[w].at = "insert"
    /\ resp.req[w].created = BatchSize(resp.req[w])
    /\ resp' = [resp EXCEPT !.req[w].at = "done"]
    /\ UNCHANGED <<jadwal, nextPk, raceFrame>>

RaceNext ==
    \/ \E w \in Requesters : create_check(w)
    \/ \E w \in Requesters : group_edit_check(w)
    \/ \E w \in Requesters : create_row(w)
    \/ \E w \in Requesters : submission_redirect(w)

RaceSpec == RaceInit /\ [][RaceNext]_vars

-----------------------------------------------------------------------------
(* The scheduler's process: the loop, its playback, the clock and the store *)

\* the stores the scheduler starts on; a time with seconds and two rows in one
\* minute are rows that the admin site and the toggles can leave
LoopStores ==
    {{Row(1, "A", "senin", Time(8, 0, 0), 1, TRUE),
      Row(2, "B", "senin", Time(8, 0, 30), 0, TRUE),
      Row(3, "B", "senin", Time(8, 1, 0), 2, TRUE)},
     {Row(1, "A", "senin", Time(8, 0, 0), 1, TRUE),
      Row(2, "A", "selasa", Time(8, 0, 0), 2, TRUE),
      Row(3, "B", "senin", Time(8, 0, 0), 2, FALSE)}}

Init ==
    /\ jadwal \in LoopStores
    /\ pengecualian = {}
    /\ musik = InitMusik
    /\ nextPk = MaxPk + 1
    /\ resp = NoResp
    /\ PlaybackInit
    /\ SchedulerInit

Next ==
    \/ BellScheduler_start
    \/ handle_signal
    \/ loop_tick
    \/ loop_tick_raises
    \/ loop_skip_played
    \/ loop_ring_clip
    \/ loop_ring_silent
    \/ loop_ring_raises
    \/ loop_sleep
    \/ loop_exit
    \/ BellScheduler_stop
    \/ clock_advance
    \/ PlaybackCall
    \/ ThreadStep
    \/ running /\ PengecualianCreateRequest

Spec == Init /\ [][Next]_vars

-----------------------------------------------------------------------------
(* The scheduler's process with a second thread that calls stop() *)

\* the thread, other than the one inside start(), that calls stop()
Stopper == "w1"

\* stop() called from another thread, once start() has been called:
\* self._running = False, then stop_audio()
BellScheduler_stop_external ==
    /\ pc["loop"] # "off"
    /\ pc[Stopper] = "idle"
    /\ running' = FALSE
    /\ pc' = [pc EXCEPT ![Stopper] = "sa_enter"]
    /\ UNCHANGED <<storeVars, resp, playVars, arg, target, played_this_minute,
                   last_minute, tickNow, due, dueIdx, lastIter, clockVars,
                   ringVars>>

StopNext ==
    \/ BellScheduler_start
    \/ handle_signal
    \/ loop_tick
    \/ loop_tick_raises
    \/ loop_skip_played
    \/ loop_ring_clip
    \/ loop_ring_silent
    \/ loop_ring_raises
    \/ loop_sleep
    \/ loop_exit
    \/ BellScheduler_stop
    \/ BellScheduler_stop_external
    \/ clock_advance
    \/ PlaybackCall
    \/ ThreadStep

StopSpec == Init /\ [][StopNext]_vars

\* the steps of playback thread t that are its own: a clip may be long, and
\* when it ends is not the thread's to say
ThreadRuns(t) ==
    \/ ThreadLoad(t)
    \/ ThreadPygameFails(t)
    \/ ThreadFallbackLoad(t)
    \/ ThreadBackendsFail(t)
    \/ ThreadSeesStop(t)
    \/ ThreadClearsName(t)
    \/ ThreadReturns(t)

\* the steps of the thread inside start(): the loop, the finally clause
LoopRuns ==
    \/ loop_tick
    \/ loop_tick_raises
    \/ loop_skip_played
    \/ loop_ring_clip
    \/ loop_ring_silent
    \/ loop_ring_raises
    \/ loop_sleep
    \/ loop_exit
    \/ BellScheduler_stop

\* the statements of play_audio and stop_audio of caller c that do not wait
\* for the lock
CallRuns(c) ==
    /\ \/ play_audio_clear(c)
       \/ play_audio_joined(c)
       \/ play_audio_join_expired(c)
       \/ play_audio_start(c)
       \/ stop_audio_joined(c)
       \/ stop_audio_join_expired(c)
    /\ UNCHANGED callFrame

\* "with _current_player_lock" of caller c
LockTaken(c) ==
    /\ play_audio_enter(c) \/ stop_audio_enter(c)
    /\ UNCHANGED callFrame

\* the scheduling of the threads: every thread that can take a step takes
\* one (the loop sleeps 0.5 s, a backend polls every 0.1 s, join has a
\* timeout of 10 s), and a thread that waits for the lock gets it when the
\* lock is free again and again.  Nothing is assumed about the end of a clip
Scheduling ==
    /\ WF_vars(LoopRuns)
    /\ \A c \in Callers : WF_vars(CallRuns(c)) /\ SF_vars(LockTaken(c))
    /\ \A t \in Tids : WF_vars(ThreadRuns(t))

\* time is followed over the instants of the first day of ClockDates
clock_advance_first_day ==
    /\ clock < Len(ClockTimes)
    /\ clock_advance

FairStopNext ==
    \/ BellScheduler_start
    \/ handle_signal
    \/ loop_tick
    \/ loop_tick_raises
    \/ loop_skip_played
    \/ loop_ring_clip
    \/ loop_ring_silent
    \/ loop_ring_raises
    \/ loop_sleep
    \/ loop_exit
    \/ BellScheduler_stop
    \/ BellScheduler_stop_external
    \/ clock_advance_first_day
    \/ PlaybackCall
    \/ ThreadStep

FairStopSpec == Init /\ [][FairStopNext]_vars /\ Scheduling

-----------------------------------------------------------------------------
(* The scheduler's loop next to edits and toggles of the group it rings *)

\* the group edit form for the Monday bell of group A: at 08:00 or at 08:01,
\* with or without the clip, active or not
SlotForms ==
    {Form("A", <<"senin">>, j, m, a) :
        j \in {<<T0800>>, <<T0801>>},
        m \in {MusikId("empty", 0), MusikId("int", 1)}, a \in BOOLEAN}

\* one bell, group A, Monday 08:00, with the 90 s clip
SlotInit ==
    /\ jadwal = {Row(1, "A", "senin", Time(8, 0, 0), 1, TRUE)}
    /\ pengecualian = {}
    /\ musik = InitMusik
    /\ nextPk = 2
    /\ resp = NoResp
    /\ PlaybackInit
    /\ SchedulerInit

\* POST jadwal/grup/A/edit/ by the web server while the scheduler runs
SlotEditRequest ==
    /\ running
    /\ \E f \in SlotForms :
          jadwal_group_edit_view("A", f.nama, f.hari, f.jam, f.musik, f.aktif)
    /\ UNCHANGED restVars

\* POST jadwal/<pk>/toggle/ by the web server while the scheduler runs
SlotToggleRequest ==
    /\ running
    /\ \E pk \in 1..MaxPk : jadwal_toggle_view(pk)
    /\ UNCHANGED restVars

SlotNext ==
    \/ BellScheduler_start
    \/ handle_signal
    \/ loop_tick
    \/ loop_tick_raises
    \/ loop_skip_played
    \/ loop_ring_clip
    \/ loop_ring_silent
    \/ loop_ring_raises
    \/ loop_sleep
    \/ loop_exit
    \/ BellScheduler_stop
    \/ clock_advance_first_day
    \/ PlaybackCall
    \/ ThreadStep
    \/ SlotEditRequest
    \/ SlotToggleRequest

SlotSpec == SlotInit /\ [][SlotNext]_vars

-----------------------------------------------------------------------------
(* Claims about the store *)

\* C4: no two active schedules have the same weekday and time of day.
C4_ActiveSlotsUnique ==
    \A r1 \in jadwal, r2 \in jadwal :
        (r1.aktif /\ r2.aktif /\ r1.hari = r2.hari /\ r1.jam = r2.jam)
            => r1.pk = r2.pk


-----------------------------------------------------------------------------
(* Claims about the conflict validator *)

\* the clip length in whole seconds, rounded up, of a clip pk (0: no clip),
\* read from the clips of the run
ClipSeconds(mpk) ==
    IF mpk = 0 THEN 0
    ELSE LET d == (CHOOSE m \in InitMusik : m.pk = mpk).durasi
         IN  IF d % 10 = 0 THEN d \div 10 ELSE d \div 10 + 1

StartOfText(t) ==
    LET p == strptime_HM(t).time IN p.hour * 3600 + p.minute * 60

StartOfRow(r) == r.jam.hour * 3600 + r.jam.minute * 60 + r.jam.second

\* two starts with their clip lengths collide: equal starts, or the half-open
\* intervals [start, start + length) overlap in the sense of section 4.1
Collide(s1, len1, s2, len2) ==
    \/ s1 = s2
    \/ s1 < s2 + len2 /\ s2 < s1 + len1

\* some candidate collides with an existing active, non-excluded schedule of
\* its weekday, or two candidates of one weekday collide
ConflictExists(c) ==
    \E d \in 1..Len(c.hari_list) :
        \/ \E i \in 1..Len(c.jam_list), r \in jadwal :
              /\ r.aktif
              /\ r.pk \notin c.exclude_pks
              /\ r.hari = c.hari_list[d]
              /\ Collide(StartOfText(c.jam_list[i]), ClipSeconds(c.musik_pk),
                         StartOfRow(r), ClipSeconds(r.musik))
        \/ \E i \in 1..Len(c.jam_list), k \in 1..Len(c.jam_list) :
              /\ i < k
              /\ Collide(StartOfText(c.jam_list[i]), ClipSeconds(c.musik_pk),
                         StartOfText(c.jam_list[k]), ClipSeconds(c.musik_pk))

\* C9: the validator returns a non-empty list exactly when a candidate
\* collides with an existing active non-excluded schedule of its weekday or
\* with another candidate of its weekday.
C9_ErrorsIffConflict ==
    resp.call.fn = "validate" =>
        ((resp.errors # <<>>) <=> ConflictExists(resp.call))

\* the case of section 8.5: an existing Monday 08:00 schedule with the 90 s
\* clip and a candidate at Monday 08:01 are reported as still playing
C9_Witness ==
    /\ resp.call.fn = "validate"
    /\ \E r \in jadwal :
          /\ r.aktif /\ r.hari = "senin" /\ r.jam = Time(8, 0, 0) /\ r.musik = 1
          /\ r.pk \notin resp.call.exclude_pks
    /\ resp.call.jam_list = <<T0801>>
    /\ resp.call.hari_list = <<"senin">>
    /\ \E i \in 1..Len(resp.errors) :
          /\ resp.errors[i].kind = "still_playing_existing"
          /\ resp.errors[i].end = <<"0", "8", ":", "0", "1", ":", "3", "0">>

Count(errors, P(_)) == Cardinality({i \in 1..Len(errors) : P(errors[i])})

\* the pairs of the call with equal starts: a candidate and an existing
\* active non-excluded schedule of its weekday
SameStartExisting(c) ==
    {<<c.hari_list[d], c.jam_list[i], r>> :
        d \in 1..Len(c.hari_list), i \in 1..Len(c.jam_list),
        r \in {x \in jadwal : x.aktif /\ x.pk \notin c.exclude_pks}}
    \cap
    {<<h, t, r>> \in
        SeqRange(c.hari_list) \X SeqRange(c.jam_list) \X jadwal :
        r.hari = h /\ StartOfText(t) = StartOfRow(r)}

\* two candidates of the call with equal starts, in list order
SameStartBatch(c) ==
    {<<c.jam_list[i], c.jam_list[k]>> :
        i \in 1..Len(c.jam_list), k \in 1..Len(c.jam_list)}
    \cap
    {<<t, u>> \in SeqRange(c.jam_list) \X SeqRange(c.jam_list) :
        StrLess(t, u) /\ StartOfText(t) = StartOfText(u)}

\* C10: a pair with equal starts gets exactly one same-start message and no
\* still-playing message, whatever the clip lengths.
C10_SameStartOwnMessage ==
    resp.call.fn = "validate" =>
        /\ \A p \in SameStartExisting(resp.call) :
              LET same(m) == /\ m.kind = "same_start_existing"
                             /\ m.day = p[1] /\ m.jam = p[2]
                             /\ m.nama = p[3].nama
                  playing(m) == /\ m.kind = "still_playing_existing"
                                /\ m.day = p[1] /\ m.jam = p[2]
                                /\ m.nama = p[3].nama
                                /\ m.jam2 = strftime_HM(p[3].jam)
              IN  /\ Count(resp.errors, same) = 1
                  /\ Count(resp.errors, playing) = 0
        /\ \A h \in SeqRange(resp.call.hari_list),
              p \in SameStartBatch(resp.call) :
              LET same(m) == /\ m.kind = "same_start_batch" /\ m.day = h
                             /\ m.jam = p[1] /\ m.jam2 = p[2]
                  playing(m) == /\ m.kind = "still_playing_batch" /\ m.day = h
                                /\ {m.jam, m.jam2} = {p[1], p[2]}
              IN  /\ Count(resp.errors, same) = 1
                  /\ Count(resp.errors, playing) = 0

\* a candidate with the 90 s clip at the start of an existing schedule that has
\* a clip too, and two candidates with one start, each reported once
C10_Witness ==
    /\ resp.call.fn = "validate"
    /\ resp.call.musik_pk = 1
    /\ \E p \in SameStartExisting(resp.call) : p[3].musik # 0
    /\ SameStartBatch(resp.call) # {}
    /\ \E i \in 1..Len(resp.errors) : resp.errors[i].kind = "same_start_existing"
    /\ \E i \in 1..Len(resp.errors) : resp.errors[i].kind = "same_start_batch"

-----------------------------------------------------------------------------
(* Claims about the playback controller *)

Alive == {t \in Tids : is_alive(t)}

\* C2: at most one playback thread started by play_audio is alive at any
\* moment, under any interleaving of play_audio and stop_audio calls, an
\* expired join included
C2_AtMostOneAlive == Cardinality(Alive) <= 1

\* C5: while one call holds the lock (it has signalled the current thread and
\* waits for it, or installs the new thread and name), no other call changes
\* the stop flag, the current thread or the current name; so a stop request
\* is never cleared by another call before the targeted thread has seen it
C5_ReplaceIsAtomic ==
    [][\A c \in Callers :
          (/\ current_player_lock = c
           /\ pc'[c] = pc[c])
          => /\ stop_playback' = stop_playback
             /\ current_playback_thread' = current_playback_thread
             /\ (current_playing_name' # current_playing_name
                    => \E t \in Tids : threads'[t] # threads[t])]_vars

-----------------------------------------------------------------------------
(* Claims about the resolver *)

\* the schedules due at an instant, said without the resolver: active, on the
\* instant's weekday counted from Monday = 0, at its hour and minute, and
\* with no exception on its date
DueAt(now) ==
    {r \in jadwal :
        /\ r.aktif
        /\ HARI_ORDER(r.hari) = now.date % 7
        /\ r.jam.hour = now.time.hour
        /\ r.jam.minute = now.time.minute
        /\ ~\E p \in pengecualian : p.jadwal = r.pk /\ p.tanggal = now.date}

DuePks == {due[i].pk : i \in 1..Len(due)}

\* C7: _get_due_schedules(now) returns exactly the active schedules on now's
\* weekday at now's hour and minute, whatever now's seconds, minus those with
\* an exception dated now.date(); each once
C7_DueExactly ==
    lastIter = "called" =>
        /\ DuePks = Pks(DueAt(tickNow))
        /\ Len(due) = Cardinality(DueAt(tickNow))
        /\ \A i \in 1..Len(due) :
              \E r \in jadwal : /\ r.pk = due[i].pk
                                /\ r.hari = due[i].hari
                                /\ r.jam = due[i].jam

\* C7 at work: at 08:00:59 on a Monday, of two active schedules of Monday
\* 08:00 one is returned and the other, excepted today, is not
C7_Witness ==
    /\ lastIter = "called"
    /\ tickNow.time.second = 59
    /\ Len(due) = 1
    /\ \E r \in jadwal : /\ r.aktif
                         /\ r.jam = Time(8, 0, 30)
                         /\ r.pk \notin DuePks
                         /\ [tanggal |-> tickNow.date, jadwal |-> r.pk]
                                \in pengecualian

-----------------------------------------------------------------------------
(* Claims about the scheduler loop *)

\* a step of the loop that reads the clock and asks the resolver
IsTick == pc["loop"] = "top" /\ pc'["loop"] = "ring"

Rung(pk, m) == ringCount[pk][m]

C3_LoopResilient ==
    [][/\ (pc["loop"] \in RunningPcs /\ pc'["loop"] \notin RunningPcs)
            => ~running
       /\ (pc["loop"] \in {"top", "ring"} /\ lastIter' = "raised"
              /\ (lastIter # "raised" \/ pc["loop"] = "ring"))
            => (pc'["loop"] = "top" /\ running' = running)]_vars

\* C3 at work: _ring_bell has raised and the loop is at its while test, running
C3_Witness ==
    /\ lastIter = "raised"
    /\ pc["loop"] = "top"
    /\ running
    /\ \E i \in 1..Len(due) : Rung(due[i].pk, CalMinute(tickNow)) = 1

\* C6: a tick whose HH:MM key differs from the stored key empties the played
\* set and stores the key before the due schedules are examined (and a tick
\* with the same key keeps the set); so the played set holds only schedules
\* rung in the calendar minute of the tick, and after an iteration that ran to
\* its end the schedules due are in it
C6_MinuteReset ==
    /\ [][IsTick =>
            LET key == strftime_HM(ClockPoints[clock].time)
            IN  /\ last_minute' = key
                /\ dueIdx' = 1
                /\ played_this_minute' =
                       IF key # last_minute THEN {} ELSE played_this_minute]_vars
    /\ [](\A pk \in played_this_minute : Rung(pk, CalMinute(tickNow)) = 1)
    /\ []((pc["loop"] = "top" /\ lastIter = "ok")
            => /\ DuePks \subseteq played_this_minute
               /\ last_minute = strftime_HM(tickNow.time))

\* C6 at work: the schedule of 08:00 rang at 08:00 and not at 08:01, the one
\* of 08:01 at 08:01 and not at 08:00, and the schedule of 08:00 rang again a
\* week later
C6_Witness ==
    /\ Rung(1, <<0, 8, 0>>) = 1
    /\ Rung(1, <<0, 8, 1>>) = 0
    /\ Rung(3, <<0, 8, 1>>) = 1
    /\ Rung(3, <<0, 8, 0>>) = 0
    /\ Rung(1, <<7, 8, 0>>) = 1

\* C8: at every tick, an active schedule of the tick's weekday, hour and
\* minute is due unless an exception names it with the tick's own date:
\* exceptions of other dates or of other schedules take nothing away
C8_ExceptionScoped ==
    [][IsTick =>
          LET now == ClockPoints[clock]
          IN  \A r \in jadwal :
                 (/\ r.aktif
                  /\ r.hari = WEEKDAY_MAP(now.date % 7)
                  /\ r.jam.hour = now.time.hour
                  /\ r.jam.minute = now.time.minute)
                 => ((r.pk \in {due'[i].pk : i \in 1..Len(due')})
                        <=> [tanggal |-> now.date, jadwal |-> r.pk]
                                \notin pengecualian)]_vars

\* C8 at work: with an exception dated Monday 0 for schedule 1, schedule 1
\* did not ring that Monday at 08:00 while schedule 2 did, and schedule 1 rang
\* the Monday after
C8_Witness ==
    /\ [tanggal |-> 0, jadwal |-> 1] \in pengecualian
    /\ Rung(1, <<0, 8, 0>>) = 0
    /\ Rung(2, <<0, 8, 0>>) = 1
    /\ Rung(1, <<7, 8, 0>>) = 1

-----------------------------------------------------------------------------
(* Claims about the create form and the group edit form *)

\* the messages that reject a submission because of a row of the table
AboutExistingRow(msg) ==
    msg.kind \in {"slot_taken", "same_start_existing", "still_playing_existing"}

\* the messages that reject a submission because of a collision, with a row
\* of the table or inside the batch
AboutCollision(msg) ==
    \/ AboutExistingRow(msg)
    \/ msg.kind \in {"same_start_batch", "still_playing_batch"}

\* C11: jadwal_group_edit_view leaves the group's own rows out of every
\* collision check: no message of a group edit is about a row of the group
\* that is edited (the rows that carry the group's name)
C11_GroupNotAgainstItself ==
    resp.call.fn = "edit" =>
        \A i \in 1..Len(resp.errors) :
            AboutExistingRow(resp.errors[i])
                => resp.errors[i].nama # resp.call.nama

\* C12: a create or group edit submission that is saved as inactive gets no
\* message about a collision or an overlap, with an existing schedule or
\* inside the batch
C12_InactiveSkipsChecks ==
    (resp.call.fn \in {"create", "edit"} /\ ~resp.call.form.aktif) =>
        \A i \in 1..Len(resp.errors) : ~AboutCollision(resp.errors[i])

\* a group edit was accepted and has saved
EditSaved == resp.call.fn = "edit" /\ resp.errors = <<>>

\* the weekdays chosen in a form
ChosenDays(f) == SeqRange(f.hari)

\* the times of day chosen in a form
ChosenTimes(f) == {strptime_HM(f.jam[j]).time : j \in 1..Len(f.jam)}

\* the rows of the table at a weekday and time
RowsAt(h, t) == {q \in jadwal : q.hari = h /\ q.jam = t}

\* what C20 says of an accepted group edit of form f
ReplacedBy(f) ==
    /\ \A r \in resp.before :
          r.nama = resp.call.nama => \A q \in jadwal : q.pk # r.pk
    /\ \A h \in ChosenDays(f), t \in ChosenTimes(f) :
          /\ Cardinality(RowsAt(h, t)) = 1
          /\ \A q \in RowsAt(h, t) :
                /\ q.nama = f.nama
                /\ q.musik = MusikPk(f.musik)
                /\ q.aktif = f.aktif
    /\ resp.created = Cardinality(ChosenDays(f)) * Cardinality(ChosenTimes(f))

\* C20: after an accepted jadwal_group_edit_view submission no row that was
\* in the group before exists, exactly one row exists for each pair of a
\* chosen weekday and a chosen time, with the submitted name, clip and active
\* flag, and the count reported is |weekdays| * |times|
C20_GroupEditReplaces == EditSaved => ReplacedBy(resp.call.form)

\* C20 for the forms that name every chosen time once
C20_ReplacesWhenTimesWrittenOnce ==
    (EditSaved /\ Cardinality(ChosenTimes(resp.call.form))
                    = Cardinality(SeqRange(resp.call.form.jam)))
        => ReplacedBy(resp.call.form)

\* a group edit has passed its checks
EditAccepted ==
    resp.call.fn \in {"edit_running", "edit"} /\ resp.errors = <<>>

\* the rows the group had before the edit are all in the table
OldRowsInPlace ==
    \A r \in resp.before : r.nama = resp.call.nama => r \in jadwal

\* the rows created by the edit are the whole cross product
NewRowsComplete ==
    Cardinality({r \in jadwal : r.pk \notin Pks(resp.before)})
        = Len(EditHari) * Len(EditJam)

\* C21: a group edit is all or nothing for the other processes: whenever
\* the scheduler's process reads the table by _get_due_schedules, the rows
\* of an edited group are the old ones, all of them, or the new cross
\* product, all of it
C21_ReplaceAllOrNothing ==
    [][(scheduler_reads /\ EditAccepted)
          => (OldRowsInPlace \/ NewRowsComplete)]_vars

\* a create or group edit submission was answered with messages
Rejected ==
    resp.call.fn \in {"create", "edit"} /\ resp.errors # <<>>

\* C22: a create or group edit submission that is answered with at least one
\* message leaves the schedules and the exceptions as they were before the
\* request, and no pk is used up
C22_RejectedNotPersisted ==
    Rejected => /\ jadwal = resp.before
                /\ pengecualian = resp.exceptions
                /\ nextPk = Cardinality(resp.before) + 1

\* an active submission was rejected by the conflict validator alone, with a
\* row and an exception in the table
C22_Witness ==
    /\ Rejected
    /\ \A i \in 1..Len(resp.errors) :
          resp.errors[i].kind \in {"same_start_existing", "same_start_batch",
                                   "still_playing_existing",
                                   "still_playing_batch"}
    /\ jadwal # {}
    /\ pengecualian # {}

\* the submission that was answered, as the views read it
AnsweredForm == resp.call.fn \in {"create", "edit"}
SubmittedHari == DedupSeq(resp.call.form.hari)
SubmittedJam == SortedSet(SeqRange(resp.call.form.jam))

\* the stored rows of other groups on a submitted weekday at a submitted time
TakenSlots ==
    {r \in resp.before :
        /\ r.hari \in SeqRange(SubmittedHari)
        /\ \E j \in 1..Len(SubmittedJam) :
              /\ strptime_HM(SubmittedJam[j]).ok
              /\ strptime_HM(SubmittedJam[j]).time = r.jam
        /\ resp.call.fn = "edit" => r.nama # resp.call.nama}

\* C23: the answer to a submission names all of its problems: every invalid
\* weekday, every malformed time, every taken slot and an unknown clip, each
\* in the one response, and no message of the response is repeated.
C23_AllProblemsInOneAnswer ==
    AnsweredForm =>
        /\ \A i \in 1..Len(SubmittedHari) :
              SubmittedHari[i] \notin HARI_CHOICES =>
                  LET its(m) == m.kind = "hari_invalid"
                                /\ m.day = SubmittedHari[i]
                  IN  Count(resp.errors, its) > 0
        /\ \A j \in 1..Len(SubmittedJam) :
              ~strptime_HM(SubmittedJam[j]).ok =>
                  LET its(m) == m.kind = "jam_invalid"
                                /\ m.jam = SubmittedJam[j]
                  IN  Count(resp.errors, its) > 0
        /\ \A r \in TakenSlots :
              LET its(m) == m.kind = "slot_taken" /\ m.day = r.hari
                            /\ m.jam = strftime_HM(r.jam)
              IN  Count(resp.errors, its) > 0
        /\ (resp.call.form.musik.kind # "empty"
              /\ ~MusikFound(resp.call.form.musik)) =>
                  LET its(m) == m.kind = "musik_not_found" IN Count(resp.errors, its) > 0

-----------------------------------------------------------------------------
(* Claims about the playback controller's calls *)

\* the step in which caller c ends its wait on the old thread (line 139)
JoinEnds(c) == pc[c] = "pa_join" /\ pc'[c] # "pa_join"

\* the step in which play_audio of caller c starts its thread and returns
PlayReturns(c) == pc[c] = "pa_start" /\ pc'[c] # "pa_start"

\* the threads started in a step
Started == {t \in Tids : threads[t] = "free" /\ threads'[t] = "start"}

\* C13: play_audio for a file on the disk, called while a playback thread is
\* alive, starts the new thread only after the old one has exited or the
\* bounded wait on it has expired; and when play_audio returns, the current
\* thread is the new thread and the current name is the name of the new clip
C13_PreemptionOrder ==
    [][\A c \in Callers :
          /\ JoinEnds(c)
                => /\ ~is_alive(target[c]) \/ JoinCanExpire(target[c])
                   /\ Started = {}
          /\ (Started # {} /\ pc'[c] # pc[c]) => PlayReturns(c)
          /\ PlayReturns(c)
                => /\ Started = {current_playback_thread'}
                   /\ current_playing_name' = arg[c].name]_vars

\* C13, the order alone: a thread is started only by a call that has ended
\* its wait, or found nothing playing, and holds the lock
C13_StartAfterWait ==
    [][\A c \in Callers :
          /\ JoinEnds(c)
                => /\ ~is_alive(target[c]) \/ JoinCanExpire(target[c])
                   /\ Started = {}
          /\ (Started # {} /\ pc'[c] # pc[c]) => PlayReturns(c)
          /\ PlayReturns(c) => Started = {current_playback_thread'}]_vars

\* the step in which stop_audio of caller c is entered (line 151)
StopEnters(c) == pc[c] = "sa_enter" /\ pc'[c] # "sa_enter"

\* the step in which stop_audio of caller c returns
StopReturns(c) ==
    pc[c] \in {"sa_enter", "sa_join"} /\ pc'[c] = AfterStop(c)

\* C14: stop_audio called when nothing is playing returns without an error
\* and changes nothing of the playback state; when stop_audio returns,
\* get_playback_status() says not playing with an empty name, and it says so
\* until a play_audio call starts a thread; so a second stop_audio that
\* follows finds nothing playing and leaves the state of the first
C14_StopIdempotent ==
    [][/\ \A c \in Callers :
            /\ (StopEnters(c) /\ ~is_playing)
                  => /\ pc'[c] = AfterStop(c)
                     /\ playVars' = playVars
            /\ StopReturns(c)
                  => /\ ~is_playing'
                     /\ get_playback_status'.current_name = NoName
       /\ (~is_playing /\ is_playing') => \E c \in Callers : PlayReturns(c)
      ]_vars

\* a stop_audio call has stopped a clip and returned (the flag it has set is
\* still set, no thread is current), and the next stop_audio call is about to
\* run
C14_Witness ==
    /\ stop_playback
    /\ current_playback_thread = 0
    /\ current_player_lock = "none"
    /\ \E c \in Callers : pc[c] = "sa_enter"

-----------------------------------------------------------------------------
(* Claims about the scheduler's stop *)

\* the threads that call stop(): the one inside start(), in its finally
\* clause, and the second one
StopCallers == {"loop", Stopper}

\* C15: stop() may be called any number of times, by the second thread while
\* the loop runs or after it has ended: when a call returns the scheduler is
\* not running, and a call that finds a clip playing sets the stop flag for
\* it; once start() has returned the scheduler is not running and
\* is_playing() is false
C15_StopIdempotent ==
    [][/\ \A c \in StopCallers :
            /\ StopReturns(c) => ~running' /\ ~is_playing'
            /\ (StopEnters(c) /\ is_playing)
                  => /\ stop_playback'
                     /\ target'[c] = current_playback_thread
       /\ pc'["loop"] = "stopped" => ~running' /\ ~is_playing'
      ]_vars

\* start() has returned after a stop() of the second thread and the stop()
\* of the finally clause, and the second thread calls stop() once more
C15_Witness ==
    /\ pc["loop"] = "stopped"
    /\ pc[Stopper] = "sa_enter"
    /\ stop_playback

\* a stop is requested while the loop runs
StopRequested == pc["loop"] \in RunningPcs /\ ~running

\* start() has returned, after the stop() of its finally clause
StartReturned == pc["loop"] = "stopped"

\* C16: after SIGINT or SIGTERM, or a call of stop(), while the loop runs,
\* the loop begins no new iteration, and eventually it has exited, stop() has
\* been executed and start() has returned
C16_StopLeadsToStopped ==
    /\ [][~running => ~IsTick]_vars
    /\ StopRequested ~> StartReturned

\* the stop is requested while the loop waits inside play_audio for the
\* thread of the clip before
C16_Witness ==
    /\ StopRequested
    /\ pc["loop"] = "pa_join"

\* caller c is inside play_audio or stop_audio
InCall(c) ==
    pc[c] \in {"pa_clear", "pa_enter", "pa_join", "pa_start",
               "sa_enter", "sa_join"}

\* caller c holds the playback lock
HoldsLock(c) == current_player_lock = c

\* the loop is at its while test, after the sleep of line 315
AtNextTick == pc["loop"] = "top"

\* C17: every call of play_audio and of stop_audio eventually returns: the
\* lock that a call holds is released, and a call returns with or without
\* the thread it waits for having ended; so the loop, from anywhere inside
\* an iteration, reaches its next while test
C17_NoCallBlocksForever ==
    /\ \A c \in Callers : InCall(c) ~> ~InCall(c)
    /\ \A c \in Callers : HoldsLock(c) ~> ~HoldsLock(c)
    /\ (pc["loop"] \in RunningPcs) ~> AtNextTick

\* the loop waits for the lock inside play_audio while the second thread
\* holds it inside stop_audio, waiting for a playback thread that is alive
C17_Witness ==
    /\ pc["loop"] = "pa_enter"
    /\ HoldsLock(Stopper)
    /\ pc[Stopper] = "sa_join"
    /\ is_alive(target[Stopper])

-----------------------------------------------------------------------------
(* Claims about the playback threads *)

\* C18: a playback thread that polls with the stop flag set leaves its
\* polling loop at its next step; a thread that has left the loop clears the
\* current name and then exits; and if the flag stays set, a thread that
\* plays is eventually not alive, however long its clip
C18_CooperativeCancel ==
    /\ [][\A t \in Tids :
             /\ (threads[t] = "poll" /\ stop_playback
                   /\ threads'[t] # threads[t])
                   => threads'[t] = "ending"
             /\ (threads[t] = "ending" /\ threads'[t] # threads[t])
                   => /\ threads'[t] = "exiting"
                      /\ current_playing_name' = NoName
             /\ (threads[t] = "exiting" /\ threads'[t] # threads[t])
                   => ~is_alive(t)']_vars
    /\ \A t \in Tids :
          (is_alive(t) /\ stop_playback) ~> (~stop_playback \/ ~is_alive(t))

\* a thread that a call waits for, with the flag set, has cleared the name
\* and is about to exit
C18_Witness ==
    \E c \in Callers :
        /\ pc[c] \in {"pa_join", "sa_join"}
        /\ stop_playback
        /\ threads[target[c]] = "exiting"
        /\ current_playing_name = NoName

\* play_audio of caller c finds no file at the path and returns (lines
\* 116-118)
FileMissing(c) ==
    /\ pc[c] = "pa_clear"
    /\ ~FileOnDisk(arg[c].clip)
    /\ pc'[c] # "pa_clear"

\* get_playback_status() says: not playing, no name
NotPlaying ==
    get_playback_status = [is_playing |-> FALSE, current_name |-> NoName]

\* thread t takes a step
Moves(t) == threads'[t] # threads[t]

\* C19, the backends: when pygame fails the subprocess fallback is tried
\* next; a thread whose backends have all failed clears the name and ends; and
\* when the current thread has ended the status is not playing with an empty
\* name
C19_BackendsFallBack ==
    [][\A t \in Tids :
          /\ (threads[t] = "start" /\ Moves(t))
                => threads'[t] \in {"poll", "fallback"}
          /\ (threads[t] = "fallback" /\ Moves(t))
                => threads'[t] \in {"poll", "ending"}
          /\ (threads[t] = "ending" /\ Moves(t))
                => threads'[t] = "exiting" /\ current_playing_name' = NoName
          /\ (threads[t] = "exiting" /\ Moves(t)
                /\ current_playback_thread = t)
                => NotPlaying']_vars

\* C19: a playback that fails is not fatal: the fallback order and the end of
\* a failed thread are as in C19_BackendsFallBack, and a play_audio call for
\* a file that does not exist returns to its caller with the status at not
\* playing and an empty name
C19_FailureNotFatal ==
    [][/\ \A t \in Tids :
             /\ (threads[t] = "start" /\ Moves(t))
                   => threads'[t] \in {"poll", "fallback"}
             /\ (threads[t] = "fallback" /\ Moves(t))
                   => threads'[t] \in {"poll", "ending"}
             /\ (threads[t] = "ending" /\ Moves(t))
                   => threads'[t] = "exiting" /\ current_playing_name' = NoName
             /\ (threads[t] = "exiting" /\ Moves(t)
                   /\ current_playback_thread = t)
                   => NotPlaying'
       /\ \A c \in Callers :
             FileMissing(c) => pc'[c] = AfterPlay(c) /\ NotPlaying']_vars

-----------------------------------------------------------------------------
(* Claims about the next bell *)

NextBellAnswered == resp.call.fn = "next_bell"
ActiveRows == {r \in jadwal : r.aktif}
Today == Weekday(resp.call.now.date)

\* the active schedules of today's weekday after the time of the call
LaterToday ==
    {r \in ActiveRows :
        /\ HARI_ORDER(r.hari) = Today
        /\ SecondsOfDay(r.jam) > SecondsOfDay(resp.call.now.time)}

\* the number of days from today to the next day of the row's weekday, a
\* week for today's own weekday
DaysAhead(r) ==
    LET d == (HARI_ORDER(r.hari) + 7 - Today) % 7
    IN  IF d = 0 THEN 7 ELSE d

Earliest(r, rows) ==
    r \in rows /\ \A x \in rows : SecondsOfDay(r.jam) <= SecondsOfDay(x.jam)

\* C24: _get_next_bell(now) returns None only if no schedule is active.
C24_NoneOnlyWithoutActive ==
    NextBellAnswered => (~resp.result.found <=> ActiveRows = {})

\* the only active schedule is on another weekday, or today at a time that is
\* not after now, and it is returned
C24_Witness ==
    /\ NextBellAnswered
    /\ Cardinality(ActiveRows) = 1
    /\ LaterToday = {}
    /\ resp.result.found
    /\ resp.result.row \in ActiveRows
    /\ HARI_ORDER(resp.result.row.hari) = Today

\* C25: _get_next_bell(now) returns the earliest active schedule of today's
\* weekday that is strictly after now's time of day if there is one, and
\* otherwise the earliest active schedule of the first following weekday,
\* wrapping around the week, that has an active schedule.
C25_NextBell ==
    NextBellAnswered =>
        IF LaterToday # {}
        THEN resp.result.found /\ Earliest(resp.result.row, LaterToday)
        ELSE ActiveRows # {} =>
                 /\ resp.result.found
                 /\ Earliest(resp.result.row,
                        {r \in ActiveRows :
                            \A x \in ActiveRows : DaysAhead(r) <= DaysAhead(x)})

\* a bell at the very time of the call is passed over for one of a later day
C25_Witness ==
    /\ NextBellAnswered
    /\ \E r \in ActiveRows :
          /\ HARI_ORDER(r.hari) = Today
          /\ r.jam = resp.call.now.time
    /\ LaterToday = {}
    /\ resp.result.found
    /\ HARI_ORDER(resp.result.row.hari) # Today

-----------------------------------------------------------------------------
(* Claims about the exceptions *)

AtMostOnce == \A e \in BagToSet(pengecualian) : CopiesIn(e, pengecualian) = 1

\* a step of the requester w on a date and schedule the table already holds
\* adds no row; where it ends the work on that id, the id is counted as
\* skipped and not as created
ExistingIsSkipped(w) ==
    LET q == resp.req[w]
        after == resp'.req[w]
    IN  (/\ q.at \in {"get", "create", "get_again"}
         /\ Matches(q)
         /\ BagIn(CurrentRow(q), pengecualian)
         /\ after # q)
        => /\ pengecualian' = pengecualian
           /\ after.created = q.created
           /\ after.at # "get_again" => after.skipped = q.skipped + 1

\* C26: the table holds at most one exception per date and schedule after
\* any creations and deletions, two requests creating one pair at a time
\* included; creating an exception that exists adds no row and is counted
\* as skipped.
C26_OneExceptionPerPair ==
    /\ []AtMostOnce
    /\ [][\A w \in Requesters : ExistingIsSkipped(w)]_vars

\* two requests went for one pair at a time: the second insert was refused
\* and the row of the first is in the table
C26_Witness ==
    \E w \in Requesters :
        /\ resp.req[w].at = "get_again"
        /\ CopiesIn(CurrentRow(resp.req[w]), pengecualian) = 1

-----------------------------------------------------------------------------
(* Claims about the store under all the administrative views *)

ScheduleOf(e) == {r \in jadwal : r.pk = e.jadwal}

OnItsWeekday(e) ==
    \A r \in ScheduleOf(e) : r.hari = WEEKDAY_MAP(Weekday(e.tanggal))

\* an exception is created only for a stored schedule that is active and of
\* the weekday of the date
CreatedForActiveOfTheDay ==
    \A e \in pengecualian' \ pengecualian :
        \E r \in jadwal : /\ r.pk = e.jadwal
                          /\ r.aktif
                          /\ HARI_ORDER(r.hari) = e.tanggal % 7

NothingCarriedOver ==
    \A r \in jadwal' :
        r.pk \notin Pks(jadwal) => \A e \in pengecualian' : e.jadwal # r.pk

\* C28: deleting a schedule, alone, with its group or in a group edit,
\* deletes its exceptions: no exception refers to a missing schedule, and
\* the rows a group edit creates have no exceptions.
C28_ExceptionsOwned ==
    /\ [](\A e \in pengecualian : ScheduleOf(e) # {})
    /\ [][NothingCarriedOver]_vars

\* the first two schedules are deleted and the exception of the table is one
\* of the schedule that is left
C28_Witness ==
    /\ Pks(jadwal) = {MaxPk}
    /\ \E e \in pengecualian : e.jadwal = MaxPk

\* the step deleted the clip pk: the rows are the rows of before, those of
\* the clip without a clip
RowsKeptWithout(pk) ==
    /\ Cardinality(jadwal') = Cardinality(jadwal)
    /\ \A r \in jadwal :
          [r EXCEPT !.musik = IF r.musik = pk THEN 0 ELSE r.musik] \in jadwal'

\* the resolver hands a row of the next state to the loop without a clip
RingsSilently(r) == ~(Joined(r).file)'

\* C29: deleting a clip deletes no schedule: the schedules that referred to
\* it lose the reference, keep weekday, time, name and active flag, and ring
\* silently afterwards.
C29_ClipDeleteKeepsSchedules ==
    [][\A m \in musik :
          m \notin musik' =>
              /\ RowsKeptWithout(m.pk)
              /\ \A r \in jadwal' :
                    (\E old \in jadwal : old.pk = r.pk /\ old.musik = m.pk)
                        => r.musik = 0 /\ RingsSilently(r)]_vars

\* the forms of this specification all name a clip: the first clip is
\* deleted and an active schedule that had it is there without a clip, next
\* to a schedule with the other clip
C29_Witness ==
    /\ {m.pk : m \in musik} = {2}
    /\ \E r \in jadwal : r.musik = 0 /\ r.aktif
    /\ \E r \in jadwal : r.musik = 2

-----------------------------------------------------------------------------
(* Claims about the interval test *)

\* C30: _interval_overlaps is the half-open test, false exactly when one
\* interval ends where or before the other starts; it gives one answer for
\* the two orders of the intervals, and false for intervals that touch.
C30_HalfOpenSymmetric ==
    resp.call.fn = "overlaps" =>
        /\ ~resp.result <=> \/ resp.call.end_a <= resp.call.start_b
                            \/ resp.call.end_b <= resp.call.start_a
        /\ resp.result = resp.swapped
        /\ resp.call.end_a = resp.call.start_b => ~resp.result

\* the calls of section 8: [10, 20) and [20, 30) touch and do not overlap
C30_Witness ==
    /\ resp.call.fn = "overlaps"
    /\ resp.call.start_a = 10 /\ resp.call.end_a = 20
    /\ resp.call.start_b = 20 /\ resp.call.end_b = 30
    /\ ~resp.result /\ ~resp.swapped

-----------------------------------------------------------------------------
(* Claims about the time conversions *)

\* the text is HH:MM:SS
IsClockText(x) ==
    /\ Len(x) = 8
    /\ x[3] = ":" /\ x[6] = ":"
    /\ \A i \in {1, 2, 4, 5, 7, 8} : x[i] \in DigitChars

\* the time of day an HH:MM:SS text names
ClockTextTime(x) ==
    Time(DigitVal(x[1]) * 10 + DigitVal(x[2]),
         DigitVal(x[4]) * 10 + DigitVal(x[5]),
         DigitVal(x[7]) * 10 + DigitVal(x[8]))

IsTimeOfDay(t) ==
    t.hour \in 0..23 /\ t.minute \in 0..59 /\ t.second \in 0..59

\* C31: _seconds_to_time_str(n) is the HH:MM:SS text of min(n, 86399), a time
\* of the day and never one after midnight; _time_to_seconds(t) is in
\* [0, 86399] and its text names t again.
C31_ClampNeverWraps ==
    /\ resp.call.fn = "seconds_to_time_str" =>
          /\ IsClockText(resp.result)
          /\ IsTimeOfDay(ClockTextTime(resp.result))
          /\ SecondsOfDay(ClockTextTime(resp.result))
                = (IF resp.call.n >= 86399 THEN 86399 ELSE resp.call.n)
    /\ resp.call.fn = "time_to_seconds" =>
          /\ resp.seconds \in 0..86399
          /\ IsClockText(resp.result)
          /\ ClockTextTime(resp.result) = resp.call.t

\* an end of playback a second into the next day is shown as 23:59:59
C31_Witness ==
    /\ resp.call.fn = "seconds_to_time_str"
    /\ resp.call.n = 86401
    /\ resp.result = <<"2", "3", ":", "5", "9", ":", "5", "9">>

-----------------------------------------------------------------------------
(* Claims about schedules due in one minute *)

\* the loop has left the calendar minute of its last tick
MinuteOver == CalMinute(ClockPoints[clock]) # CalMinute(tickNow)

\* C32: schedules due in one minute are rung independently: when the loop
\* starts the first tick of another minute, each schedule that the tick
\* before found due has been rung exactly once in its minute, also when the
\* ringing of one of them raised.
C32_EachDueRungOnce ==
    [][(IsTick /\ MinuteOver) =>
          \A i \in 1..Len(due) : Rung(due[i].pk, CalMinute(tickNow)) = 1]_vars

-----------------------------------------------------------------------------
(* Claims about bells and the audio of other bells *)

\* the start of a row in seconds of the week, Monday 00:00:00 being 0
StartInWeek(r) == HARI_ORDER(r.hari) * 86400 + StartOfRow(r)

\* the row late starts while the clip of the row early, started at its time
\* and ceil(duration) seconds long, is playing; the week is a circle
StartsDuring(late, early) ==
    ((StartInWeek(late) + 604800 - StartInWeek(early)) % 604800)
        < ClipSeconds(early.musik)

\* C33: after any creations, group edits, toggles and deletions no active
\* schedule starts while the clip of another active schedule is playing.
C33_NoBellDuringAudio ==
    \A r1 \in jadwal, r2 \in jadwal :
        (r1.aktif /\ r2.aktif /\ r1.pk # r2.pk) => ~StartsDuring(r2, r1)

-----------------------------------------------------------------------------
(* Claims about the silent bell *)

\* the loop is at a due schedule without a clip that has not rung in this
\* minute, and the step is the loop's
RingsWithoutClip ==
    /\ pc["loop"] = "ring"
    /\ dueIdx <= Len(due)
    /\ Current.pk \notin played_this_minute
    /\ ~Current.file
    /\ <<dueIdx, played_this_minute, pc["loop"], lastIter>>'
          # <<dueIdx, played_this_minute, pc["loop"], lastIter>>

\* C34: ringing a schedule without a clip calls no play_audio, raises
\* nothing, leaves the playback thread, the name and the stop flag as they
\* are, and the schedule has fired for the minute.
C34_SilentBell ==
    [][RingsWithoutClip =>
          /\ pc'["loop"] = "ring"
          /\ lastIter' = lastIter
          /\ UNCHANGED <<current_playback_thread, current_playing_name,
                         stop_playback, current_player_lock, threads, arg,
                         target>>
          /\ Current.pk \in played_this_minute'
          /\ ringCount'[Current.pk][CalMinute(tickNow)] = 1
          /\ dueIdx' = dueIdx + 1]_vars

\* a bell without a clip has rung while the clip of the bell before it plays
C34_Witness ==
    /\ pc["loop"] = "ring"
    /\ is_playing
    /\ current_playing_name # NoName
    /\ \E i \in 1..Len(due) :
          /\ i < dueIdx
          /\ ~due[i].file
          /\ due[i].pk \in played_this_minute
          /\ Rung(due[i].pk, CalMinute(tickNow)) = 1

-----------------------------------------------------------------------------
(* Claims about the playback status *)

\* the name get_playback_status() reports
StatusName == get_playback_status.current_name

\* C35: while a playback thread started by play_audio is alive, is_playing()
\* is true and the reported name is the name given to the latest play_audio
\* call that started a thread: the start of a thread sets it, and no other
\* step changes it while a thread stays alive; and when is_playing() is false
\* the reported name is empty.
C35_StatusReflectsPlayback ==
    /\ [](Alive # {} => is_playing)
    /\ [](~is_playing => StatusName = NoName)
    /\ [][/\ \A c \in Callers :
                (PlayReturns(c) /\ Started # {}) => StatusName' = arg[c].name
          /\ (Alive # {} /\ Alive' # {} /\ Started = {})
                => StatusName' = StatusName]_vars

-----------------------------------------------------------------------------
(* Claims about the stop flag at the start of a clip *)

\* a playback thread that is cut short in this step: its polling loop finds
\* the stop flag set
CutShort(t) == threads[t] = "poll" /\ threads'[t] = "ending" /\ stop_playback

\* C36: every playback thread started by play_audio begins with the stop
\* flag clear, and the flag stays clear until a stop_audio or play_audio call
\* takes the lock after the start; so a thread is cut short only by a call
\* that signalled it, never by a stop left over from before its start.
C36_NoStaleStop ==
    [][/\ Started # {} => ~stop_playback'
       /\ (~stop_playback /\ stop_playback')
             => \E c \in Callers :
                   /\ current_player_lock' = c
                   /\ is_alive(target'[c])]_vars

-----------------------------------------------------------------------------
(* Claims about two submissions at a time *)

\* two rows of one weekday that the validator keeps apart: the same hour and
\* minute, or one starts while the clip of the other plays
BatchesCollide(r1, r2) ==
    /\ r1.hari = r2.hari
    /\ \/ (r1.jam.hour = r2.jam.hour /\ r1.jam.minute = r2.jam.minute)
       \/ StartsDuring(r1, r2)
       \/ StartsDuring(r2, r1)

\* the rows request w has created and the table holds
Persisted(w) == {r \in jadwal : r.pk \in resp.req[w].pks}

\* C37: of two create or group edit requests for active batches that hold
\* the same (weekday, time) slot or overlapping playback intervals, processed
\* with their statements interleaved, at most one is persisted.
C37_AtMostOnePersisted ==
    \A r1 \in Persisted("w1"), r2 \in Persisted("w2") :
        (r1.aktif /\ r2.aktif) => ~BatchesCollide(r1, r2)

-----------------------------------------------------------------------------
(* Claims about one slot under edits *)

RECURSIVE RingsUpTo(_, _)
\* the rings of the schedules with pks 1..pk in calendar minute m
RingsUpTo(pk, m) ==
    IF pk = 0 THEN 0 ELSE Rung(pk, m) + RingsUpTo(pk - 1, m)

\* every row the run stores is a Monday bell of group A, so the schedules
\* that ring in a calendar minute are the bell of that group at that
\* weekday, hour and minute
OneGroup == \A r \in jadwal : r.nama = "A" /\ r.hari = "senin"

-----------------------------------------------------------------------------
(* Claims about the next bell and the exceptions *)

\* the schedules the next bell is the earliest of, by the schedules and the
\* time of the call alone: those of today after now, else those of the
\* nearest following weekday
NextBellPool ==
    IF LaterToday # {} THEN LaterToday
    ELSE {r \in ActiveRows : \A x \in ActiveRows : DaysAhead(r) <= DaysAhead(x)}

\* the date on which the schedule rings next after the call
RingDate(r) ==
    IF r \in LaterToday THEN resp.call.now.date
    ELSE resp.call.now.date + DaysAhead(r)

\* the schedule has an exception on the date, and _get_due_schedules at its
\* time on that date does not return it
Suppressed(r, d) ==
    LET at == [date |-> d, time |-> r.jam]
    IN  /\ \E p \in pengecualian : p.jadwal = r.pk /\ p.tanggal = d
        /\ \A i \in 1..Len(get_due_schedules(at)) :
              get_due_schedules(at)[i].pk # r.pk

\* C39: the result of _get_next_bell(now) is the same for every set of stored
\* exceptions: it is the earliest of the active schedules by weekday and
\* time alone, also when that schedule has an exception on the date it would
\* ring.
C39_NextBellIgnoresExceptions ==
    NextBellAnswered =>
        IF NextBellPool = {} THEN resp.result = NoBell
        ELSE /\ resp.result.found
             /\ Earliest(resp.result.row, NextBellPool)

\* the schedule returned is suppressed on the date it would ring, and the
\* resolver does not return it at that time
C39_Witness ==
    /\ NextBellAnswered
    /\ resp.result.found
    /\ Suppressed(resp.result.row, RingDate(resp.result.row))

=============================================================================
